---- MODULE Spec2Model ----
(***************************************************************************)
(* Verification model of plexAutoScan's change-detection and               *)
(* update-dispatch pipeline.                                               *)
(*                                                                         *)
(* The module holds several specifications over one set of variables; each *)
(* one models one component of the program and leaves the variables of the *)
(* other components at their initial value:                                *)
(*                                                                         *)
(*   SpecDaemon    main.py  PlexAutoScan.run / _process_directories /      *)
(*                 _process_directory and utils/timeout_decorator.py       *)
(*                 run_with_timeout                                        *)
(*   SpecSave      snapshot_utils.py generate_snapshot: the write of the   *)
(*                 snapshot file (temp file, rename retries, copy)         *)
(*   SpecStore     utils/snapshot.py SnapshotManager.generate_snapshot:    *)
(*                 file name of a tree's record, load / save               *)
(*   SpecDiff      utils/snapshot.py compare_snapshots and                 *)
(*                 snapshot_utils.py generate_incremental_snapshot         *)
(*   SpecDispatch  plex/library.py update_library_with_files,              *)
(*                 find_deepest_matching_library and                       *)
(*                 _trigger_individual_file_scans                          *)
(*   SpecScan      snapshot_utils.py generate_snapshot: the directory      *)
(*                 scanner (process_file, sort, deadline wrapper)          *)
(*   SpecResolve   plex/library.py and library_utils.py                    *)
(*                 find_deepest_matching_library on given targets          *)
(*   SpecClean     utils/snapshot.py clean_old_snapshots                   *)
(*   SpecRefresh   plex/library.py update_library_with_files and           *)
(*                 _trigger_individual_file_scans, plex/api.py             *)
(*                 scan_library and _make_request, request by request      *)
(*   SpecPool      snapshot_utils.py generate_snapshot: the batch loop of  *)
(*                 the parallel scan, its thread pools and the threads     *)
(*                 running process_file                                    *)
(*   SpecMerge     plex/library.py _trigger_individual_file_scans: the     *)
(*                 directories of the refresh calls and their merging      *)
(*   SpecSmb       smb_api.py SMBManager: connect, disconnect and          *)
(*                 _update_network_health of two threads                   *)
(*   SpecKeepAlive snapshot_utils.py keep_smb_alive: the keep-alive        *)
(*                 thread of a scan and stop()                             *)
(*                                                                         *)
(* SpecDaemonLive is SpecDaemon with both threads of the daemon fair.      *)
(***************************************************************************)
EXTENDS Integers, Sequences, FiniteSets, TLC

VARIABLES
    \* ---- daemon loop (main.py) ----
    pc,                   \* position of the main thread in run()
    cycle_count,          \* main.py:199
    success_count,        \* main.py:102
    failure_count,        \* main.py:103
    skipped_count,        \* main.py:104
    skipped_directories,  \* main.py:109
    shutdown_requested,   \* main.py:110 _shutdown_requested
    daemon_mode,          \* main.py:107
    wait_remaining,       \* main.py:266, in sleep segments
    recovered_dirs,       \* main.py:388, the recovered directories still to process
    idx,                  \* position of the loop of main.py:443 in directories
    caller,               \* which loop called _process_directory
    mount_ok,             \* the environment: what verify_path answers per directory
    mount_flips,          \* number of changes of mount_ok so far (bounded)
    \* ---- run_with_timeout (utils/timeout_decorator.py) ----
    future,               \* state of the function submitted to the executor
    worker_pc,            \* position of _process_directory_core in the worker thread
    gen_result,           \* the tuple returned by SnapshotManager.generate_snapshot
    elapsed,              \* time the main thread has spent inside run_with_timeout
    rwt_result,           \* what run_with_timeout returns to _process_directory
    \* ---- the write of the snapshot file (snapshot_utils.py generate_snapshot) ----
    s_pc,                 \* position inside the write of the snapshot file
    file_count,           \* number of files of the finished scan, len(files)
    prev_target,          \* content of output_file when the write started
    target,               \* content of output_file
    temp,                 \* content of output_file + ".tmp"
    attempt,              \* snapshot_utils.py:1170
    copy_attempt,         \* snapshot_utils.py:1253
    vanished,             \* number of times the temporary file disappeared
    save_result,          \* the value generate_snapshot's core returns
    sv_slept,             \* history: the seconds slept after each failed attempt
    \* ---- the snapshot store (utils/snapshot.py SnapshotManager) ----
    st_now,               \* the wall clock, in seconds (datetime.now())
    snapshot_dir,         \* the files of self.snapshot_dir: file name -> content
    tree,                 \* the environment: the files under each tree root
    fs_changes,           \* number of changes of tree so far (bounded)
    st_call,              \* the last call of generate_snapshot and what it found
    st_result,            \* the tuple the last call returned
    keys_computed,        \* history: the file names computed so far, per root
    saved,                \* history: the record the last scan of each root was to save
    \* ---- comparing two scans (compare_snapshots, generate_incremental_snapshot) ----
    old_paths,            \* the paths the earlier scan of the root found
    new_paths,            \* the paths the later scan of the root found
    old_size,             \* the size "a.mkv" had at the earlier scan
    compare_result,       \* what compare_snapshots returned
    incremental_result,   \* what generate_incremental_snapshot computed
    \* ---- the dispatcher (plex/library.py PlexLibraryManager) ----
    disp_libraries,       \* self.libraries
    disk,                 \* the environment: the files present, relative to a directory
    disk_changes,         \* number of changes of disk so far (bounded)
    disk_changed,         \* history: disk changed since the last call
    library_snapshot,     \* the file library_<id>_files.json of each library
    webdav_count,         \* the attribute _webdav_path_<directory>_count
    retry_count,          \* retry_count of the refresh loop of a full scan
    last_call,            \* the last call of update_library_with_files
    \* ---- the directory scanner (snapshot_utils.py generate_snapshot) ----
    sc_pc,                \* position of the call of generate_snapshot
    sc_is_docker,         \* the environment: is_docker_environment()
    sc_in,                \* the arguments of the call and the tree it meets
    sc_pending,           \* the files handed to the pool and not processed yet
    sc_locals,            \* file_paths and the counters of _generate_snapshot_core
    sc_failed,            \* history: the files whose os.path.getsize raised
    sc_timed_out,         \* the deadline of run_with_timeout expired during the call
    sc_core,              \* what _generate_snapshot_core returned
    sc_output,            \* the records of the file at output_file, <<>> when absent
    sc_written,           \* history: the call wrote the file at output_file
    sc_calls,             \* number of calls so far (bounded)
    sc_result,            \* what SnapshotManager returns for the call
    \* ---- the resolvers (find_deepest_matching_library) ----
    rs_path,              \* the path to resolve
    rs_targets,           \* the libraries known, in the order of the list
    rs_called,            \* the resolvers called so far
    rs_match,             \* what plex/library.py's resolver returned
    rs_utils_match,       \* what library_utils.py's resolver returned
    \* ---- clean_old_snapshots (utils/snapshot.py SnapshotManager) ----
    cl_dir,               \* the environment: the modification time of each entry of self.snapshot_dir
    cl_call,              \* the last call of clean_old_snapshots and what it met
    cl_result,            \* the dict the last call returned
    \* ---- the refresh calls (plex/library.py, plex/api.py) ----
    rf_pc,                \* position of update_library_with_files: idle, scanning, full_scan
    rf_files,             \* the environment: the valid files of the directory
    rf_count,             \* the attribute _webdav_path_<directory>_count
    rf_snapshot,          \* the file library_<id>_files.json
    rf_mode,              \* the branch the call under way took
    rf_files_to_scan,     \* files_to_scan of the call under way
    rf_batches,           \* dir_batches still to process, the directory under way first
    rf_retries,           \* retries of the _make_request under way
    rf_delays,            \* the delays _make_request has slept for the request under way
    rf_retry_count,       \* retry_count of the loop of a full scan (its own variable here)
    rf_scan_calls,        \* history: calls of scan_library for the directory under way
    rf_log,               \* history: the refresh calls of the call under way that have returned
    rf_success_count,     \* success_count of _trigger_individual_file_scans
    rf_last,              \* history: the last call that ended
    rf_prev,              \* history: the call that ended before it
    rf_dispatches,        \* number of calls so far (bounded)
    \* ---- the worker pool of the scanner (snapshot_utils.py _generate_snapshot_core) ----
    wp_pc,                \* position of the thread that runs the core
    wp_env,               \* the environment and the directory of the scan
    wp_batch,             \* index of the next batch of temp_file_paths
    wp_executors,         \* the ThreadPoolExecutors made so far, the newest last
    wp_running,           \* the calls of process_file the worker threads are in
    wp_locals,            \* the variables of the core the threads share
    wp_seen,              \* history: what the last pass of the loop read and did
    wp_output,            \* the sorted list written at output_file, <<>> before
    wp_result,            \* how the core ended
    \* ---- the directories of the refresh calls (plex/library.py _trigger_individual_file_scans) ----
    mg_pc,                \* position of _trigger_individual_file_scans: start, merging, scanning, done
    mg_in,                \* the call: the directories of file_paths in the order the files come, the files of each, the configuration
    mg_sorted,            \* sorted_directories still to walk
    mg_merged,            \* merged_directories, a dict in the order of its keys
    mg_processed,         \* processed_files
    mg_list,              \* history: directories_list as it was built
    mg_batches,           \* dir_batches still to process, the directory under way first
    mg_calls,             \* history: the refresh calls made, in order
    mg_success,           \* success_count
    \* ---- the connection registry of SMBManager (smb_api.py) ----
    smb_pc,               \* position of each thread in connect or disconnect
    smb_key,              \* conn_key of the call each thread makes
    smb_conn,             \* the local conn of each thread, 0 for none
    smb_lock,             \* the thread that holds self._lock, "none" when it is free
    smb_connections,      \* self._connections: the connection registered under each key, 0 for none
    smb_open,             \* the connections that are connected
    smb_made,             \* the number of SMBConnection objects created
    smb_attempts,         \* self.last_connection_attempts, the verdicts in order
    smb_health,           \* self.network_health, in hundredths
    smb_timeout,          \* self.default_timeout
    smb_calls,            \* the number of calls the threads have made
    smb_drops,            \* the number of connections the server has dropped
    smb_replaced,         \* history: the connections a store has replaced in the registry
    \* ---- the keep-alive thread of a scan (snapshot_utils.py keep_smb_alive) ----
    ka_docker,            \* is_docker_environment()
    ka_pc,                \* position of _keep_alive: enter, waiting, probing, sleeping, returned
    ka_left,              \* ticks left of the wait or the sleep of the thread
    ka_stop_event,        \* stop_event.is_set()
    ka_caller,            \* position of the scan: scanning, joining (inside stop()), stopped
    ka_join_left,         \* ticks left of thread.join(interval + 1)
    ka_probes,            \* the number of probes made
    ka_late,              \* history: the probes made after stop() has returned
    ka_now                \* ticks elapsed

daemon_vars == <<pc, daemon_mode, cycle_count, success_count, failure_count, skipped_count,
                 skipped_directories, shutdown_requested, wait_remaining,
                 recovered_dirs, idx, caller, mount_ok, mount_flips,
                 future, worker_pc, gen_result, elapsed, rwt_result>>

save_vars == <<s_pc, file_count, prev_target, target, temp, attempt, copy_attempt,
               vanished, save_result, sv_slept>>

store_vars == <<st_now, snapshot_dir, tree, fs_changes, st_call, st_result,
                keys_computed, saved>>

diff_vars == <<old_paths, new_paths, old_size, compare_result, incremental_result>>

dispatch_vars == <<disp_libraries, disk, disk_changes, disk_changed, library_snapshot,
                   webdav_count, retry_count, last_call>>

scan_vars == <<sc_pc, sc_is_docker, sc_in, sc_pending, sc_locals, sc_failed, sc_timed_out,
               sc_core, sc_output, sc_written, sc_calls, sc_result>>

resolve_vars == <<rs_path, rs_targets, rs_called, rs_match, rs_utils_match>>

clean_vars == <<cl_dir, cl_call, cl_result>>

refresh_vars == <<rf_pc, rf_files, rf_count, rf_snapshot, rf_mode, rf_files_to_scan,
                   rf_batches, rf_retries, rf_delays, rf_retry_count, rf_scan_calls,
                   rf_log, rf_success_count, rf_last, rf_prev, rf_dispatches>>

pool_vars == <<wp_pc, wp_env, wp_batch, wp_executors, wp_running, wp_locals, wp_seen,
                wp_output, wp_result>>

merge_vars == <<mg_pc, mg_in, mg_sorted, mg_merged, mg_processed, mg_list, mg_batches,
                 mg_calls, mg_success>>

smb_vars == <<smb_pc, smb_key, smb_conn, smb_lock, smb_connections, smb_open, smb_made,
               smb_attempts, smb_health, smb_timeout, smb_calls, smb_drops, smb_replaced>>

ka_vars == <<ka_docker, ka_pc, ka_left, ka_stop_event, ka_caller, ka_join_left, ka_probes,
              ka_late, ka_now>>

\* the variables of the components other than the daemon loop
not_daemon_vars == <<save_vars, store_vars, diff_vars, dispatch_vars, scan_vars,
    resolve_vars,
    clean_vars,
    refresh_vars,
    pool_vars,
    merge_vars,
    smb_vars,
    ka_vars>>

\* the variables of the components other than the snapshot file writer
not_save_vars == <<daemon_vars, store_vars, diff_vars, dispatch_vars, scan_vars,
    resolve_vars,
    clean_vars,
    refresh_vars,
    pool_vars,
    merge_vars,
    smb_vars,
    ka_vars>>

\* the variables of the components other than the snapshot store
not_store_vars == <<daemon_vars, save_vars, diff_vars, dispatch_vars, scan_vars,
    resolve_vars,
    clean_vars,
    refresh_vars,
    pool_vars,
    merge_vars,
    smb_vars,
    ka_vars>>

\* the variables of the components other than the comparison of two scans
not_diff_vars == <<daemon_vars, save_vars, store_vars, dispatch_vars, scan_vars,
    resolve_vars,
    clean_vars,
    refresh_vars,
    pool_vars,
    merge_vars,
    smb_vars,
    ka_vars>>

\* the variables of the components other than the dispatcher
not_dispatch_vars == <<daemon_vars, save_vars, store_vars, diff_vars, scan_vars,
    resolve_vars,
    clean_vars,
    refresh_vars,
    pool_vars,
    merge_vars,
    smb_vars,
    ka_vars>>

\* the variables of the components other than the directory scanner
not_scan_vars == <<daemon_vars, save_vars, store_vars, diff_vars, dispatch_vars,
    resolve_vars,
    clean_vars,
    refresh_vars,
    pool_vars,
    merge_vars,
    smb_vars,
    ka_vars>>

\* the variables of the components other than the resolvers
not_resolve_vars == <<daemon_vars, save_vars, store_vars, diff_vars, dispatch_vars,
                      scan_vars,
    clean_vars,
    refresh_vars,
    pool_vars,
    merge_vars,
    smb_vars,
    ka_vars>>

\* the variables of the components other than the cleaning of old records
not_clean_vars == <<daemon_vars, save_vars, store_vars, diff_vars, dispatch_vars,
    scan_vars, resolve_vars,
    refresh_vars,
    pool_vars,
    merge_vars,
    smb_vars,
    ka_vars>>

\* the variables of the components other than the refresh calls
not_refresh_vars == <<daemon_vars, save_vars, store_vars, diff_vars, dispatch_vars,
    scan_vars, resolve_vars, clean_vars,
    pool_vars,
    merge_vars,
    smb_vars,
    ka_vars>>

\* the variables of the components other than the worker pool
not_pool_vars == <<daemon_vars, save_vars, store_vars, diff_vars, dispatch_vars, scan_vars,
    resolve_vars, clean_vars, refresh_vars,
    merge_vars,
    smb_vars,
    ka_vars>>

\* the variables of the components other than the directories of the refresh calls
not_merge_vars == <<daemon_vars, save_vars, store_vars, diff_vars, dispatch_vars,
    scan_vars, resolve_vars, clean_vars, refresh_vars, pool_vars,
    smb_vars,
    ka_vars>>

\* the variables of the components other than the connection registry
not_smb_vars == <<daemon_vars, save_vars, store_vars, diff_vars, dispatch_vars, scan_vars,
    resolve_vars, clean_vars, refresh_vars, pool_vars, merge_vars,
    ka_vars>>

\* the variables of the components other than the keep-alive thread
not_ka_vars == <<daemon_vars, save_vars, store_vars, diff_vars, dispatch_vars, scan_vars,
    resolve_vars, clean_vars, refresh_vars, pool_vars, merge_vars, smb_vars>>

vars == <<daemon_vars, save_vars, store_vars, diff_vars, dispatch_vars, scan_vars,
          resolve_vars,
    clean_vars,
    refresh_vars,
    pool_vars,
    merge_vars,
    smb_vars,
    ka_vars>>

----------------------------------------------------------------------------
(* Helpers on sequences *)

Range(s) == {s[i] : i \in 1..Len(s)}

RECURSIVE SeqFilter(_, _)
\* the elements of s that are in the set keep, in the order of s
SeqFilter(s, keep) ==
    IF s = <<>> THEN <<>>
    ELSE IF Head(s) \in keep THEN <<Head(s)>> \o SeqFilter(Tail(s), keep)
         ELSE SeqFilter(Tail(s), keep)

\* list.append(x) guarded by "if x not in list"
AppendIfAbsent(s, x) == IF x \in Range(s) THEN s ELSE Append(s, x)

RECURSIVE Orders(_)
\* the sequences that hold every element of the set S once: the orders in
\* which os.listdir, or the iteration of a set, can give the elements
Orders(S) ==
    IF S = {} THEN {<<>>}
    ELSE UNION {{<<x>> \o p : p \in Orders(S \ {x})} : x \in S}

RECURSIVE SumOver(_, _)
\* the sum of count_of over the elements of the sequence s
SumOver(s, count_of) ==
    IF s = <<>> THEN 0 ELSE count_of[Head(s)] + SumOver(Tail(s), count_of)

----------------------------------------------------------------------------
(* Bounds of the model *)

MaxCycles == 2        \* daemon cycles explored
MaxFiles == 11        \* files of one scan (more than the 10 of snapshot_utils.py:1185)
MaxVanish == 1        \* disappearances of the temporary file explored
MaxNow == 2           \* seconds of wall clock explored by the snapshot store
MaxFsChanges == 1     \* changes of the watched trees explored by the snapshot store
MaxDiskChanges == 1   \* changes of the files explored by the dispatcher
MaxWebdavCalls == 11  \* calls of the dispatcher explored for a WebDAV directory
MaxMountFlips == 1    \* changes of a mount's availability explored
MaxElapsed == 3       \* clock ticks explored inside one run_with_timeout
SleepSegments == 2    \* 10-second segments of the sleep between two cycles
MaxRemoveFailures == 1 \* files os.remove fails on in one cleaning

----------------------------------------------------------------------------
(* SpecDaemon: main.py and utils/timeout_decorator.py *)

\* the configured trees, normalised and de-duplicated (_get_directories_to_process)
directories == <<"d1", "d2", "d3">>

Dirs == Range(directories)

\* timeout_config.get_timeout('very_long'): 1800 seconds, in ticks of 900 seconds
Deadline == 2

\* what SnapshotManager.generate_snapshot returns: a 3-tuple on every path
\* (utils/snapshot.py:74, 87, 195, 198, 206, 209, 212, 215, 222)
generate_snapshot_returns ==
    { <<"", "no_files", FALSE>>, <<"snapshot_path", "files", TRUE>> }

\* main.py:490: "snapshot_path, snapshot_content, is_success, added_files = ..."
\* unpacks into four names and raises ValueError for any other length; then
\* main.py:494-555 decide the value the core returns
_process_directory_core(result) ==
    IF Len(result) # 4 THEN "raised"
    ELSE IF ~result[3] /\ result[2] = "no_files" THEN "returned_false"
    ELSE "returned_true"

\* future.result() of a finished future: the returned value, or the exception
\* run_with_timeout turns into default=False (timeout_decorator.py:132-146)
run_with_timeout(fut, timed_out) ==
    IF timed_out THEN FALSE
    ELSE IF fut = "returned_true" THEN TRUE
    ELSE FALSE

\* main.py:572-574: "if not success: raise Exception(...)"
_process_directory_raises(success) == ~success

\* main.py:465-467 and 407-409: the except clause of the loop over the directories
failure_count_mutant(raised, fc) == fc
failure_count_after(raised, fc) == IF raised THEN fc + 1 ELSE fc

\* main.py:458-464 and 401-406: both branches of "if result" count a success
success_count_after(raised, sc) == IF raised THEN sc ELSE sc + 1

DaemonInit ==
    /\ pc = "cycle_start"
    /\ daemon_mode \in BOOLEAN
    /\ cycle_count = 0
    /\ success_count = 0
    /\ failure_count = 0
    /\ skipped_count = 0
    /\ skipped_directories = <<>>
    /\ shutdown_requested = FALSE
    /\ wait_remaining = 0
    /\ recovered_dirs = <<>>
    /\ idx = 0
    /\ caller = "none"
    /\ mount_ok \in [Dirs -> BOOLEAN]
    /\ mount_flips = 0
    /\ future = "none"
    /\ worker_pc = "none"
    /\ gen_result = <<>>
    /\ elapsed = 0
    /\ rwt_result = FALSE

\* main.py:115-117 signal_handler: the signal only sets the flag
Signal ==
    /\ pc # "exit"
    /\ ~shutdown_requested
    /\ shutdown_requested' = TRUE
    /\ UNCHANGED <<pc, daemon_mode, cycle_count, success_count, failure_count, skipped_count,
                   skipped_directories, wait_remaining, recovered_dirs, idx, caller,
                   mount_ok, mount_flips, future, worker_pc, gen_result, elapsed,
                   rwt_result>>
    /\ UNCHANGED not_daemon_vars

\* the environment: a mount drops or comes back
MountChange(d) ==
    /\ pc # "exit"
    /\ mount_flips < MaxMountFlips
    /\ mount_ok' = [mount_ok EXCEPT ![d] = ~mount_ok[d]]
    /\ mount_flips' = mount_flips + 1
    /\ UNCHANGED <<pc, daemon_mode, cycle_count, success_count, failure_count, skipped_count,
                   skipped_directories, shutdown_requested, wait_remaining,
                   recovered_dirs, idx, caller, future, worker_pc, gen_result,
                   elapsed, rwt_result>>
    /\ UNCHANGED not_daemon_vars

\* main.py:200-234 and 385-395: a cycle starts, _process_directories is entered
\* and the directories skipped earlier are verified again
CycleStart ==
    /\ pc = "cycle_start"
    /\ cycle_count < MaxCycles
    /\ cycle_count' = cycle_count + 1
    /\ recovered_dirs' = SeqFilter(skipped_directories, {d \in Dirs : mount_ok[d]})
    /\ skipped_directories' = SeqFilter(skipped_directories, {d \in Dirs : ~mount_ok[d]})
    /\ pc' = "recovered_loop"
    /\ UNCHANGED <<daemon_mode, success_count, failure_count, skipped_count,
                   shutdown_requested, wait_remaining, idx, caller, mount_ok, mount_flips, future,
                   worker_pc, gen_result, elapsed, rwt_result>>
    /\ UNCHANGED not_daemon_vars

\* main.py:474-570: _process_directory submits its core to a one-thread executor
Submit(who) ==
    /\ caller' = who
    /\ future' = "running"
    /\ worker_pc' = "generate_snapshot"
    /\ gen_result' = <<>>
    /\ elapsed' = 0
    /\ rwt_result' = FALSE
    /\ pc' = "rwt_wait"

\* main.py:396-400: the next recovered directory is processed
RecoveredNext ==
    /\ pc = "recovered_loop"
    /\ recovered_dirs # <<>>
    /\ Submit("recovered")
    /\ UNCHANGED <<daemon_mode, cycle_count, success_count, failure_count, skipped_count,
                   skipped_directories, shutdown_requested, wait_remaining,
                   recovered_dirs, idx, mount_ok, mount_flips>>
    /\ UNCHANGED not_daemon_vars

RECURSIVE PrecheckSkipped(_, _)
\* main.py:413-427: the directories the first loop visits before it breaks at
\* the first valid one
PrecheckSkipped(dirs, ok) ==
    IF dirs = <<>> THEN <<>>
    ELSE IF ok[Head(dirs)] THEN <<>>
    ELSE <<Head(dirs)>> \o PrecheckSkipped(Tail(dirs), ok)

RECURSIVE AppendAllIfAbsent(_, _)
AppendAllIfAbsent(s, xs) ==
    IF xs = <<>> THEN s
    ELSE AppendAllIfAbsent(AppendIfAbsent(s, Head(xs)), Tail(xs))

\* main.py:411-440: the first loop over the directories, which looks for one
\* valid directory and returns from _process_directories if there is none
Precheck ==
    /\ pc = "recovered_loop"
    /\ recovered_dirs = <<>>
    /\ LET skipped == PrecheckSkipped(directories, mount_ok)
       IN /\ skipped_count' = skipped_count + Len(skipped)
          /\ skipped_directories' = AppendAllIfAbsent(skipped_directories, skipped)
          /\ IF Len(skipped) = Len(directories)
             THEN pc' = "stats" /\ idx' = idx
             ELSE pc' = "main_loop" /\ idx' = 1
    /\ UNCHANGED <<daemon_mode, cycle_count, success_count, failure_count, shutdown_requested,
                   wait_remaining, recovered_dirs, caller, mount_ok, mount_flips,
                   future, worker_pc, gen_result, elapsed, rwt_result>>
    /\ UNCHANGED not_daemon_vars

\* main.py:443-453: an invalid directory is skipped
MainSkip ==
    /\ pc = "main_loop"
    /\ idx <= Len(directories)
    /\ ~mount_ok[directories[idx]]
    /\ skipped_count' = skipped_count + 1
    /\ skipped_directories' = AppendIfAbsent(skipped_directories, directories[idx])
    /\ idx' = idx + 1
    /\ UNCHANGED <<pc, daemon_mode, cycle_count, success_count, failure_count, shutdown_requested,
                   wait_remaining, recovered_dirs, caller, mount_ok, mount_flips,
                   future, worker_pc, gen_result, elapsed, rwt_result>>
    /\ UNCHANGED not_daemon_vars

\* main.py:455-457: a valid directory is processed
MainNext ==
    /\ pc = "main_loop"
    /\ idx <= Len(directories)
    /\ mount_ok[directories[idx]]
    /\ Submit("main")
    /\ UNCHANGED <<daemon_mode, cycle_count, success_count, failure_count, skipped_count,
                   skipped_directories, shutdown_requested, wait_remaining,
                   recovered_dirs, idx, mount_ok, mount_flips>>
    /\ UNCHANGED not_daemon_vars

\* main.py:490 in the worker thread: the scan returns (it may also never return)
WorkerGenerateSnapshot ==
    /\ future = "running"
    /\ worker_pc = "generate_snapshot"
    /\ gen_result' \in generate_snapshot_returns
    /\ worker_pc' = "unpack"
    /\ UNCHANGED <<pc, daemon_mode, cycle_count, success_count, failure_count, skipped_count,
                   skipped_directories, shutdown_requested, wait_remaining,
                   recovered_dirs, idx, caller, mount_ok, mount_flips, future,
                   elapsed, rwt_result>>
    /\ UNCHANGED not_daemon_vars

\* main.py:490-558 in the worker thread: the core finishes
WorkerFinish ==
    /\ future = "running"
    /\ worker_pc = "unpack"
    /\ future' = _process_directory_core(gen_result)
    /\ worker_pc' = "none"
    /\ UNCHANGED <<pc, daemon_mode, cycle_count, success_count, failure_count, skipped_count,
                   skipped_directories, shutdown_requested, wait_remaining,
                   recovered_dirs, idx, caller, mount_ok, mount_flips, gen_result,
                   elapsed, rwt_result>>
    /\ UNCHANGED not_daemon_vars

\* time passes while the main thread is blocked in future.result(timeout) or in
\* the executor's shutdown(wait=True)
Tick ==
    /\ future = "running"
    /\ \/ pc = "rwt_wait" /\ elapsed < Deadline
       \/ pc = "rwt_exit" /\ elapsed < MaxElapsed
    /\ elapsed' = elapsed + 1
    /\ UNCHANGED <<pc, daemon_mode, cycle_count, success_count, failure_count, skipped_count,
                   skipped_directories, shutdown_requested, wait_remaining,
                   recovered_dirs, idx, caller, mount_ok, mount_flips, future,
                   worker_pc, gen_result, rwt_result>>
    /\ UNCHANGED not_daemon_vars

\* timeout_decorator.py:132: future.result(timeout=actual_timeout) returns the
\* value or re-raises the exception of the finished function
RwtResult ==
    /\ pc = "rwt_wait"
    /\ future \in {"returned_true", "returned_false", "raised"}
    /\ rwt_result' = run_with_timeout(future, FALSE)
    /\ pc' = "rwt_exit"
    /\ UNCHANGED <<daemon_mode, cycle_count, success_count, failure_count, skipped_count,
                   skipped_directories, shutdown_requested, wait_remaining,
                   recovered_dirs, idx, caller, mount_ok, mount_flips, future,
                   worker_pc, gen_result, elapsed>>
    /\ UNCHANGED not_daemon_vars

\* timeout_decorator.py:132, 136-141: the deadline expires, TimeoutError
RwtTimeout ==
    /\ pc = "rwt_wait"
    /\ future = "running"
    /\ elapsed = Deadline
    /\ rwt_result' = run_with_timeout(future, TRUE)
    /\ pc' = "rwt_exit"
    /\ UNCHANGED <<daemon_mode, cycle_count, success_count, failure_count, skipped_count,
                   skipped_directories, shutdown_requested, wait_remaining,
                   recovered_dirs, idx, caller, mount_ok, mount_flips, future,
                   worker_pc, gen_result, elapsed>>
    /\ UNCHANGED not_daemon_vars

\* timeout_decorator.py:129: leaving "with ThreadPoolExecutor(...)" calls
\* shutdown(wait=True), which joins the worker thread: the block is left only
\* once the submitted function has finished
RwtExit ==
    /\ pc = "rwt_exit"
    /\ future # "running"
    /\ future' = "none"
    /\ pc' = "pd_return"
    /\ UNCHANGED <<daemon_mode, cycle_count, success_count, failure_count, skipped_count,
                   skipped_directories, shutdown_requested, wait_remaining,
                   recovered_dirs, idx, caller, mount_ok, mount_flips, worker_pc,
                   gen_result, elapsed, rwt_result>>
    /\ UNCHANGED not_daemon_vars

\* main.py:572-574, then 399-409 or 456-470: _process_directory returns or
\* raises, the loop counts the directory and goes on with the next one
PdReturn ==
    /\ pc = "pd_return"
    /\ LET raised == _process_directory_raises(rwt_result)
       IN /\ failure_count' = failure_count_after(raised, failure_count)
          /\ success_count' = success_count_after(raised, success_count)
    /\ IF caller = "recovered"
       THEN /\ recovered_dirs' = Tail(recovered_dirs)
            /\ pc' = "recovered_loop"
            /\ idx' = idx
       ELSE /\ idx' = idx + 1
            /\ pc' = "main_loop"
            /\ recovered_dirs' = recovered_dirs
    /\ caller' = "none"
    /\ UNCHANGED <<daemon_mode, cycle_count, skipped_count, skipped_directories,
                   shutdown_requested, wait_remaining, mount_ok, mount_flips,
                   future, worker_pc, gen_result, elapsed, rwt_result>>
    /\ UNCHANGED not_daemon_vars

\* main.py:236-260: the loop over the directories is over, the statistics are
\* printed, then the flag and the mode decide whether the loop ends
CycleEnd ==
    /\ pc = "main_loop"
    /\ idx > Len(directories)
    /\ pc' = "stats"
    /\ UNCHANGED <<daemon_mode, cycle_count, success_count, failure_count, skipped_count,
                   skipped_directories, shutdown_requested, wait_remaining,
                   recovered_dirs, idx, caller, mount_ok, mount_flips, future,
                   worker_pc, gen_result, elapsed, rwt_result>>
    /\ UNCHANGED not_daemon_vars

\* main.py:252-266: the flag and the mode decide whether the loop ends
Stats ==
    /\ pc = "stats"
    /\ IF shutdown_requested \/ ~daemon_mode
       THEN pc' = "exit" /\ wait_remaining' = wait_remaining
       ELSE pc' = "sleep" /\ wait_remaining' = SleepSegments
    /\ UNCHANGED <<daemon_mode, cycle_count, success_count, failure_count, skipped_count,
                   skipped_directories, shutdown_requested, recovered_dirs, idx,
                   caller, mount_ok, mount_flips, future, worker_pc, gen_result,
                   elapsed, rwt_result>>
    /\ UNCHANGED not_daemon_vars

\* main.py:267: the condition of the segmented sleep,
\* "while wait_remaining > 0 and not self._shutdown_requested"
sleep_goes_on_mutant(remaining, shutdown) == remaining > 0
sleep_goes_on(remaining, shutdown) == remaining > 0 /\ ~shutdown

\* main.py:266-270: one segment of the sleep between two cycles
SleepSegment ==
    /\ pc = "sleep"
    /\ sleep_goes_on(wait_remaining, shutdown_requested)
    /\ wait_remaining' = wait_remaining - 1
    /\ UNCHANGED <<pc, daemon_mode, cycle_count, success_count, failure_count, skipped_count,
                   skipped_directories, shutdown_requested, recovered_dirs, idx,
                   caller, mount_ok, mount_flips, future, worker_pc, gen_result,
                   elapsed, rwt_result>>
    /\ UNCHANGED not_daemon_vars

\* main.py:272-279: after the sleep the flag is checked, the counters are reset
SleepEnd ==
    /\ pc = "sleep"
    /\ ~sleep_goes_on(wait_remaining, shutdown_requested)
    /\ IF shutdown_requested
       THEN /\ pc' = "exit"
            /\ UNCHANGED <<success_count, failure_count, skipped_count>>
       ELSE /\ pc' = "cycle_start"
            /\ success_count' = 0
            /\ failure_count' = 0
            /\ skipped_count' = 0
    /\ UNCHANGED <<daemon_mode, cycle_count, skipped_directories, shutdown_requested,
                   wait_remaining, recovered_dirs, idx, caller, mount_ok,
                   mount_flips, future, worker_pc, gen_result, elapsed, rwt_result>>
    /\ UNCHANGED not_daemon_vars

DaemonNext ==
    \/ Signal
    \/ \E d \in Dirs : MountChange(d)
    \/ CycleStart
    \/ RecoveredNext
    \/ Precheck
    \/ MainSkip
    \/ MainNext
    \/ WorkerGenerateSnapshot
    \/ WorkerFinish
    \/ Tick
    \/ RwtResult
    \/ RwtTimeout
    \/ RwtExit
    \/ PdReturn
    \/ CycleEnd
    \/ Stats
    \/ SleepSegment
    \/ SleepEnd

\* the steps of the main thread, which runs PlexAutoScan.run
MainThread ==
    \/ CycleStart
    \/ RecoveredNext
    \/ Precheck
    \/ MainSkip
    \/ MainNext
    \/ RwtResult
    \/ RwtTimeout
    \/ RwtExit
    \/ PdReturn
    \/ CycleEnd
    \/ Stats
    \/ SleepSegment
    \/ SleepEnd

\* the steps of the worker thread of run_with_timeout's executor
WorkerThread ==
    \/ WorkerGenerateSnapshot
    \/ WorkerFinish

----------------------------------------------------------------------------
(* Paths.  A path is a sequence of characters, so that prefix, substring   *)
(* and length are what they are in the program.                            *)

Slash == "/"

RECURSIVE CollapseSlashes(_)
\* os.path.normpath on the paths of the model: runs of "/" become one "/"
CollapseSlashes(p) ==
    IF Len(p) < 2 THEN p
    ELSE IF p[1] = Slash /\ p[2] = Slash THEN CollapseSlashes(Tail(p))
    ELSE <<p[1]>> \o CollapseSlashes(Tail(p))

\* utils/path_utils.py:25-64 normalize_path: os.path.normpath, then the
\* trailing separator is removed unless the path is the root directory (the
\* paths of the model hold no quote, no backslash, no "." and no ".." segment)
normalize_path(p) ==
    LET c == CollapseSlashes(p)
    IN IF Len(c) > 1 /\ c[Len(c)] = Slash THEN SubSeq(c, 1, Len(c) - 1) ELSE c

----------------------------------------------------------------------------
(* How a call of snapshot_utils.py generate_snapshot ends *)

\* snapshot_utils.py:44 and :51
ERROR_TIMEOUT == 5

ERROR_UNKNOWN == 99

\* utils/logger.py:55-98: RobustLogger, the class of snapshot_utils.logger
\* (:82, utils/logger.py:101), defines the logging methods; neither it nor
\* logging.Logger has an attribute named logger, so "logger.logger" raises
\* AttributeError
RobustLoggerAttributes == {"debug", "info", "warning", "error", "critical", "warn"}

logger_logger_raises == "logger" \notin RobustLoggerAttributes

\* what a call returns: a value, or an exception
Returned(v) == [raised |-> FALSE, value |-> v]

Raised == [raised |-> TRUE, value |-> 0]

\* snapshot_utils.py:1472-1478 _snapshot_wrapper: the debug line after the
\* core raises, so the value of the core is lost
_snapshot_wrapper(core_result) ==
    IF logger_logger_raises THEN Raised ELSE core_result

\* utils/timeout_decorator.py:107-146 run_with_timeout: the default when the
\* deadline expired or the function raised
scan_run_with_timeout(outcome, timed_out) ==
    IF timed_out \/ outcome.raised THEN Returned(0 - ERROR_TIMEOUT) ELSE outcome

\* snapshot_utils.py:1489-1516: the end of generate_snapshot, after
\* run_with_timeout returned result; records is the number of records of the
\* file at output_file, 0 when there is none
generate_snapshot_end(result, records) ==
    IF records > 0
    THEN IF logger_logger_raises THEN Raised            \* :1493
         ELSE IF result.value = 0 - ERROR_TIMEOUT THEN Returned(records)
         ELSE result
    ELSE IF logger_logger_raises THEN Raised            \* :1514
         ELSE result

----------------------------------------------------------------------------
(* SpecStore: utils/snapshot.py SnapshotManager.generate_snapshot *)

\* the directory_path arguments of the model: two spellings of /m, and /t
RootInputs == { <<"/", "m">>, <<"/", "m", "/">>, <<"/", "t">> }

NormRoots == { normalize_path(r) : r \in RootInputs }

\* the files a tree may hold, in path order, with their size in MB
FileNames == <<"a.mkv", "b.mkv", "c.mkv">>

file_size == [f \in Range(FileNames) |->
                 IF f = "a.mkv" THEN 15 ELSE IF f = "b.mkv" THEN 20 ELSE 2]

file_mtime == [f \in Range(FileNames) |-> 1]

\* utils/config.py:185 MIN_FILE_SIZE_MB
min_file_size_mb == 10

\* snapshot_utils.py:469-480, 1077: the scan keeps the files that reach the
\* size threshold and returns their paths sorted
scan_files(present) ==
    SeqFilter(FileNames, {f \in present : ~(file_size[f] < min_file_size_mb)})

\* utils/snapshot.py:243: hashlib.md5(normalized_path).hexdigest()[:10]; the
\* digest is taken to be free of collisions on the paths of the model
path_hash(normalized_path) == <<"md5", normalized_path>>

\* utils/snapshot.py:229-251 _get_snapshot_filename at wall-clock time now:
\* f'snapshot_{path_hash}_{timestamp}.json', timestamp = '%Y%m%d%H%M%S'
_get_snapshot_filename(directory_path, now) ==
    [hash |-> path_hash(normalize_path(directory_path)), timestamp |-> now]

\* utils/snapshot.py:150-184: the record built from the scanned paths
snapshot_content(verified_path, paths, now) ==
    [files |-> [i \in 1..Len(paths) |->
                   [path |-> <<verified_path, paths[i]>>,
                    size |-> file_size[paths[i]],
                    mtime |-> file_mtime[paths[i]]]],
     directory |-> verified_path,
     timestamp |-> now,
     file_count |-> Len(paths),
     min_file_size_mb |-> min_file_size_mb]

\* utils/snapshot.py:203-204 json.dump and :84-85 json.load: the dictionary
\* becomes a JSON document and back (strings, numbers, lists and objects)
json_dump(content) == [json |-> content]

json_load(document) == document.json

\* utils/snapshot.py:133-142: the call of the scanner on a tree in which paths
\* are the files that pass its filters, in Docker (where the core completes)
\* and within the deadline: the core writes its file and returns their number
generate_snapshot(paths) ==
    generate_snapshot_end(
        scan_run_with_timeout(_snapshot_wrapper(Returned(Len(paths))), FALSE),
        Len(paths))

\* no record is due: the history holds the documents as a set
NoRecord == {}

NoCall == [root |-> <<>>, force |-> FALSE, valid |-> FALSE, prior |-> NoRecord,
           loaded |-> FALSE]

StoreInit ==
    /\ st_now = 0
    /\ snapshot_dir = <<>>
    /\ tree = [r \in NormRoots |-> {"a.mkv", "c.mkv"}]
    /\ fs_changes = 0
    /\ st_call = NoCall
    /\ st_result = <<"", "empty", FALSE>>
    /\ keys_computed = [r \in NormRoots |-> {}]
    /\ saved = [r \in NormRoots |-> NoRecord]

\* a second passes
StoreClockTick ==
    /\ st_now < MaxNow
    /\ st_now' = st_now + 1
    /\ UNCHANGED <<snapshot_dir, tree, fs_changes, st_call, st_result,
                   keys_computed, saved>>
    /\ UNCHANGED not_store_vars

\* the environment: a file appears in, or disappears from, a tree
StoreFsChange(r, f) ==
    /\ fs_changes < MaxFsChanges
    /\ fs_changes' = fs_changes + 1
    /\ tree' = [tree EXCEPT ![r] = IF f \in @ THEN @ \ {f} ELSE @ \cup {f}]
    /\ UNCHANGED <<st_now, snapshot_dir, st_call, st_result, keys_computed, saved>>
    /\ UNCHANGED not_store_vars

\* utils/snapshot.py:53-227: generate_snapshot(directory_path, force_update)
GenerateSnapshot(directory_path, force_update, is_valid) ==
    LET verified_path == normalize_path(directory_path)
        snapshot_path == _get_snapshot_filename(verified_path, st_now)
        exists == snapshot_path \in DOMAIN snapshot_dir
        paths == scan_files(tree[verified_path])
        scanned == generate_snapshot(paths)
        content == snapshot_content(verified_path, paths, st_now)
        call == [root |-> verified_path, force |-> force_update, valid |-> is_valid,
                 prior |-> saved[verified_path], loaded |-> FALSE]
    IN IF ~is_valid
       THEN \* :71-74 the path is not accessible
            /\ st_result' = <<"", "empty", FALSE>>
            /\ st_call' = call
            /\ UNCHANGED <<snapshot_dir, keys_computed, saved>>
       ELSE /\ keys_computed' = [keys_computed EXCEPT ![verified_path] =
                                                        @ \cup {snapshot_path}]
            /\ IF exists /\ ~force_update
               THEN \* :81-87 the record of that name is read and returned
                    /\ st_result' = <<snapshot_path, json_load(snapshot_dir[snapshot_path]), TRUE>>
                    /\ st_call' = [call EXCEPT !.loaded = TRUE]
                    /\ UNCHANGED <<snapshot_dir, saved>>
               ELSE IF ~scanned.raised /\ scanned.value > 0
               THEN \* :144-206 the record is built from the scan and written
                    /\ snapshot_dir' =
                          [k \in DOMAIN snapshot_dir \cup {snapshot_path} |->
                              IF k = snapshot_path THEN json_dump(content)
                              ELSE snapshot_dir[k]]
                    /\ saved' = [saved EXCEPT ![verified_path] = {json_dump(content)}]
                    /\ st_result' = <<snapshot_path, content, TRUE>>
                    /\ st_call' = call
               ELSE \* :196-198 and :213-215: the scan found no file, or it raised
                    \* after its core had written the file of the paths it found
                    /\ st_result' = <<"", "empty", FALSE>>
                    /\ st_call' = call
                    /\ saved' = [saved EXCEPT ![verified_path] =
                                   IF Len(paths) > 0 THEN {json_dump(content)}
                                   ELSE NoRecord]
                    /\ UNCHANGED snapshot_dir

GenerateSnapshotCall ==
    /\ \E directory_path \in RootInputs, force_update \in BOOLEAN, is_valid \in BOOLEAN :
          GenerateSnapshot(directory_path, force_update, is_valid)
    /\ UNCHANGED <<st_now, tree, fs_changes>>
    /\ UNCHANGED not_store_vars

StoreNext ==
    \/ StoreClockTick
    \/ \E r \in NormRoots, f \in Range(FileNames) : StoreFsChange(r, f)
    \/ GenerateSnapshotCall

\* the snapshot store at rest
StoreIdle ==
    /\ st_now = 0
    /\ snapshot_dir = <<>>
    /\ tree = [r \in NormRoots |-> {}]
    /\ fs_changes = 0
    /\ st_call = NoCall
    /\ st_result = <<"", "empty", FALSE>>
    /\ keys_computed = [r \in NormRoots |-> {}]
    /\ saved = [r \in NormRoots |-> NoRecord]

----------------------------------------------------------------------------
(* SpecDiff: utils/snapshot.py compare_snapshots and                       *)
(* snapshot_utils.py generate_incremental_snapshot on two scans of a root  *)

\* snapshot_utils.py:39-51 error codes
ERROR_IO == 4

NotRun == [success |-> FALSE, error |-> "not_run"]

\* utils/snapshot.py:150-184: the JSON record of a scan that found paths;
\* size_of gives the size each file had when it was scanned
scan_record(paths, size_of, now) ==
    LET sorted == SeqFilter(FileNames, paths)
    IN [files |-> [i \in 1..Len(sorted) |->
                      [path |-> sorted[i], size |-> size_of[sorted[i]],
                       mtime |-> file_mtime[sorted[i]]]],
        directory |-> <<"/", "m">>,
        timestamp |-> now,
        file_count |-> Len(sorted),
        min_file_size_mb |-> min_file_size_mb]

\* the sizes at the earlier scan: those of the later scan but for "a.mkv"
old_size_of == [f \in Range(FileNames) |-> IF f = "a.mkv" THEN old_size ELSE file_size[f]]

\* utils/snapshot.py:257-304 verify_snapshot on a parsed record: the
\* required fields are there and the list of files is not empty
verify_snapshot(content) ==
    /\ {"directory", "timestamp", "files"} \subseteq DOMAIN content
    /\ content.files # <<>>

\* the value of f.get('path') for every entry of a list of files
paths_of(files) == { files[i].path : i \in DOMAIN files }

\* utils/snapshot.py:344: the entries of the new record whose path is not a
\* key of the old one
added_files(old_snapshot, new_snapshot) ==
    SeqFilter(new_snapshot.files,
              {f \in Range(new_snapshot.files) : f.path \notin paths_of(old_snapshot.files)})

removed_files_mutant(old_snapshot, new_snapshot) ==
    SeqFilter(old_snapshot.files,
              {f \in Range(old_snapshot.files) : f.path \in paths_of(new_snapshot.files)})

\* utils/snapshot.py:345: the entries of the old record whose path is not a
\* key of the new one
removed_files(old_snapshot, new_snapshot) ==
    SeqFilter(old_snapshot.files,
              {f \in Range(old_snapshot.files) : f.path \notin paths_of(new_snapshot.files)})

\* utils/snapshot.py:348-355: the entries of the new record whose path is in
\* the old one with another size or modification time
modified_files(old_snapshot, new_snapshot) ==
    SeqFilter(new_snapshot.files,
              {f \in Range(new_snapshot.files) :
                  \E o \in Range(old_snapshot.files) :
                      o.path = f.path /\ (o.size # f.size \/ o.mtime # f.mtime)})

\* utils/snapshot.py:320-375 _compare_snapshots_core
compare_snapshots(old_snapshot, new_snapshot) ==
    IF ~verify_snapshot(old_snapshot)
    THEN [success |-> FALSE, error |-> "invalid_old_snapshot"]
    ELSE IF ~verify_snapshot(new_snapshot)
    THEN [success |-> FALSE, error |-> "invalid_new_snapshot"]
    ELSE [success |-> TRUE,
          added |-> Len(added_files(old_snapshot, new_snapshot)),
          removed |-> Len(removed_files(old_snapshot, new_snapshot)),
          modified |-> Len(modified_files(old_snapshot, new_snapshot)),
          added_files |-> added_files(old_snapshot, new_snapshot),
          removed_files |-> removed_files(old_snapshot, new_snapshot),
          modified_files |-> modified_files(old_snapshot, new_snapshot)]

\* snapshot_utils.py:1121: the binary snapshot file, b'\x00'.join(files) +
\* b'\x00', seen as the list content.split(b'\x00') gives back: the sorted
\* paths and one empty entry after the last separator
binary_snapshot(paths) == SeqFilter(FileNames, paths) \o <<"">>

\* snapshot_utils.py:1539-1604: both files are read and split, the two set
\* differences taken and the empty entry discarded; a scan that finds no
\* file leaves no file to read (snapshot_utils.py:1081-1098)
generate_incremental_snapshot(previous, current) ==
    IF previous = {} \/ current = {}
    THEN [success |-> FALSE, code |-> 0 - ERROR_IO]
    ELSE LET previous_files == Range(binary_snapshot(previous))
             current_files == Range(binary_snapshot(current))
             added == (current_files \ previous_files) \ {""}
             deleted == (previous_files \ current_files) \ {""}
         IN [success |-> TRUE, added |-> added, deleted |-> deleted,
             code |-> IF added = {} /\ deleted = {} THEN 0
                      ELSE Cardinality(added) + Cardinality(deleted)]

DiffInit ==
    /\ old_paths \in SUBSET Range(FileNames)
    /\ new_paths \in SUBSET Range(FileNames)
    /\ old_size \in {15, 16}
    /\ compare_result = NotRun
    /\ incremental_result = NotRun

CompareSnapshots ==
    /\ compare_result = NotRun
    /\ compare_result' = compare_snapshots(scan_record(old_paths, old_size_of, 0),
                                           scan_record(new_paths, file_size, 1))
    /\ UNCHANGED <<old_paths, new_paths, old_size, incremental_result>>
    /\ UNCHANGED not_diff_vars

IncrementalSnapshot ==
    /\ incremental_result = NotRun
    /\ incremental_result' = generate_incremental_snapshot(old_paths, new_paths)
    /\ UNCHANGED <<old_paths, new_paths, old_size, compare_result>>
    /\ UNCHANGED not_diff_vars

DiffNext ==
    \/ CompareSnapshots
    \/ IncrementalSnapshot

\* the comparison at rest
DiffIdle ==
    /\ old_paths = {}
    /\ new_paths = {}
    /\ old_size = 15
    /\ compare_result = NotRun
    /\ incremental_result = NotRun

----------------------------------------------------------------------------
(* SpecSave: the write of the snapshot file at the end of a scan,          *)
(* snapshot_utils.py generate_snapshot, lines 1076-1464.                   *)
(*                                                                         *)
(* The content of a file is abstracted to the scan it comes from and the   *)
(* number of records it holds: the file list is written sorted, so a file  *)
(* with k records of scan g holds the first k paths of that scan.          *)

Absent == [gen |-> "none", len |-> 0]

Content(g, k) == [gen |-> g, len |-> k]

\* snapshot_utils.py:1166
max_rename_retries == 7

\* snapshot_utils.py:1253: "for copy_attempt in range(3)"
max_copy_retries == 3

rename_backoff_mutant(failed) == 2

\* snapshot_utils.py:1245 and 1248: time.sleep(2 * (attempt + 1)) after the
\* attempt numbered from 0 failed
rename_backoff(failed) == 2 * (failed + 1)

\* snapshot_utils.py:1288 and 1291: time.sleep(2) after a failed copy
copy_retry_delay == 2

\* snapshot_utils.py:1185: "files[:10]"
DummyPrefix == 10

Min(a, b) == IF a < b THEN a ELSE b

\* snapshot_utils.py:1185: the content written when the temporary file is
\* missing before the rename: the first ten records of the sorted list
dummy_content(n) == Content("new", Min(DummyPrefix, n))

\* snapshot_utils.py:1121: b'\x00'.join(files) + b'\x00'
full_content(n) == Content("new", n)

\* os.path.exists(f) and os.path.getsize(f) > 0 (snapshot_utils.py:1229-1231, 1390)
ExistsNonEmpty(f) == f # Absent /\ f.len > 0

SaveInit ==
    /\ s_pc = "scan_done"
    /\ file_count \in 0..MaxFiles
    /\ prev_target \in {Absent, Content("old", 1), Content("old", 2)}
    /\ target = prev_target
    /\ temp = Absent
    /\ attempt = 0
    /\ copy_attempt = 0
    /\ vanished = 0
    /\ save_result = "none"
    /\ sv_slept = <<>>

\* snapshot_utils.py:1081-1098: nothing was found; no snapshot is written, the
\* temporary file and the target file are removed and 0 is returned
SaveEmpty ==
    /\ s_pc = "scan_done"
    /\ file_count = 0
    /\ temp' = Absent
    /\ \/ target' = Absent
       \/ target' = target          \* os.remove failed, logged only
    /\ save_result' = "zero"
    /\ s_pc' = "returned"
    /\ UNCHANGED <<file_count, prev_target, attempt, copy_attempt, vanished, sv_slept>>
    /\ UNCHANGED not_save_vars

\* snapshot_utils.py:1119-1163: the sorted list is written to the temporary
\* file and flushed; an exception, or the file missing afterwards, ends the call
WriteTemp ==
    /\ s_pc = "scan_done"
    /\ file_count > 0
    /\ \/ /\ temp' = full_content(file_count)
          /\ s_pc' = "attempt"
          /\ save_result' = save_result
       \/ /\ temp' = temp
          /\ s_pc' = "returned"
          /\ save_result' = "error"
    /\ UNCHANGED <<file_count, prev_target, target, attempt, copy_attempt, vanished, sv_slept>>
    /\ UNCHANGED not_save_vars

\* the environment: the temporary file disappears (the case snapshot_utils.py:1173
\* and 1255 test for)
TempVanish ==
    /\ s_pc \in {"attempt", "backup", "rename", "copy"}
    /\ temp # Absent
    /\ vanished < MaxVanish
    /\ temp' = Absent
    /\ vanished' = vanished + 1
    /\ UNCHANGED <<s_pc, file_count, prev_target, target, attempt, copy_attempt,
                   save_result, sv_slept>>
    /\ UNCHANGED not_save_vars

\* snapshot_utils.py:1170-1187: an attempt starts; a missing temporary file is
\* re-created with the first records of the list (no file named
\* output_file + '.bak' is ever created, the backups of line 1192 carry a
\* time suffix, so line 1176 is false)
AttemptBegin ==
    /\ s_pc = "attempt"
    /\ attempt < max_rename_retries
    /\ temp' = IF temp = Absent THEN dummy_content(file_count) ELSE temp
    /\ s_pc' = "backup"
    /\ UNCHANGED <<file_count, prev_target, target, attempt, copy_attempt, vanished,
                   save_result, sv_slept>>
    /\ UNCHANGED not_save_vars

\* snapshot_utils.py:1189-1202: an existing target file is renamed to a backup
\* name; if that fails it is removed; if that fails too it stays
BackupTarget ==
    /\ s_pc = "backup"
    /\ IF target = Absent
       THEN target' = target
       ELSE \/ target' = Absent
            \/ target' = target
    /\ s_pc' = "rename"
    /\ UNCHANGED <<file_count, prev_target, temp, attempt, copy_attempt, vanished,
                   save_result, sv_slept>>
    /\ UNCHANGED not_save_vars

\* snapshot_utils.py:1204-1235: os.rename(temp_output, output_file) succeeds
\* and the check of the target file passes: the loop is left
RenameOk ==
    /\ s_pc = "rename"
    /\ temp # Absent
    /\ target' = temp
    /\ temp' = Absent
    /\ IF ExistsNonEmpty(temp)
       THEN s_pc' = "final_check" /\ attempt' = attempt /\ sv_slept' = sv_slept
       ELSE /\ s_pc' = "attempt"
            /\ attempt' = attempt + 1
            /\ sv_slept' = Append(sv_slept, rename_backoff(attempt))
    /\ UNCHANGED <<file_count, prev_target, copy_attempt, vanished, save_result>>
    /\ UNCHANGED not_save_vars

\* snapshot_utils.py:1204, 1246-1248: os.rename raises (always when the
\* temporary file is missing); after the sleep the next attempt starts
RenameFail ==
    /\ s_pc = "rename"
    /\ attempt' = attempt + 1
    /\ sv_slept' = Append(sv_slept, rename_backoff(attempt))
    /\ s_pc' = "attempt"
    /\ UNCHANGED <<file_count, prev_target, target, temp, copy_attempt, vanished,
                   save_result>>
    /\ UNCHANGED not_save_vars

\* snapshot_utils.py:1250-1252: the rename attempts are used up
RenameExhausted ==
    /\ s_pc = "attempt"
    /\ attempt = max_rename_retries
    /\ s_pc' = "copy"
    /\ UNCHANGED <<file_count, prev_target, target, temp, attempt, copy_attempt,
                   vanished, save_result, sv_slept>>
    /\ UNCHANGED not_save_vars

\* snapshot_utils.py:1255-1260: a copy attempt opens the target file for
\* writing, which truncates it; without a temporary file the loop is left
CopyOpen ==
    /\ s_pc = "copy"
    /\ copy_attempt < max_copy_retries
    /\ IF temp = Absent
       THEN /\ s_pc' = "returned"
            /\ save_result' = "error"
            /\ target' = target
       ELSE /\ s_pc' = "copy_write"
            /\ save_result' = save_result
            /\ target' = Content(temp.gen, 0)
    /\ UNCHANGED <<file_count, prev_target, temp, attempt, copy_attempt, vanished, sv_slept>>
    /\ UNCHANGED not_save_vars

\* snapshot_utils.py:1261-1285: the chunks are copied and the sizes compared
CopyOk ==
    /\ s_pc = "copy_write"
    /\ temp # Absent
    /\ target' = temp
    /\ s_pc' = "final_check"
    /\ UNCHANGED <<file_count, prev_target, temp, attempt, copy_attempt, vanished,
                   save_result, sv_slept>>
    /\ UNCHANGED not_save_vars

\* snapshot_utils.py:1286-1291: the copy raised or the sizes differ; the next
\* copy attempt starts after the sleep
CopyFail ==
    /\ s_pc = "copy_write"
    /\ copy_attempt' = copy_attempt + 1
    /\ sv_slept' = Append(sv_slept, copy_retry_delay)
    /\ s_pc' = "copy"
    /\ UNCHANGED <<file_count, prev_target, target, temp, attempt, vanished,
                   save_result>>
    /\ UNCHANGED not_save_vars

\* snapshot_utils.py:1294-1300: all copy attempts failed
CopyExhausted ==
    /\ s_pc = "copy"
    /\ copy_attempt = max_copy_retries
    /\ save_result' = "error"
    /\ s_pc' = "returned"
    /\ UNCHANGED <<file_count, prev_target, target, temp, attempt, copy_attempt,
                   vanished, sv_slept>>
    /\ UNCHANGED not_save_vars

\* snapshot_utils.py:1302-1461: the final check of the target file, then the
\* number of files is returned
FinalCheck ==
    /\ s_pc = "final_check"
    /\ save_result' = IF ExistsNonEmpty(target) THEN "file_count" ELSE "error"
    /\ s_pc' = "returned"
    /\ UNCHANGED <<file_count, prev_target, target, temp, attempt, copy_attempt,
                   vanished, sv_slept>>
    /\ UNCHANGED not_save_vars

SaveNext ==
    \/ SaveEmpty
    \/ WriteTemp
    \/ TempVanish
    \/ AttemptBegin
    \/ BackupTarget
    \/ RenameOk
    \/ RenameFail
    \/ RenameExhausted
    \/ CopyOpen
    \/ CopyOk
    \/ CopyFail
    \/ CopyExhausted
    \/ FinalCheck

\* the snapshot file writer at rest
SaveIdle ==
    /\ s_pc = "idle"
    /\ file_count = 0
    /\ prev_target = Absent
    /\ target = Absent
    /\ temp = Absent
    /\ attempt = 0
    /\ copy_attempt = 0
    /\ vanished = 0
    /\ save_result = "none"
    /\ sv_slept = <<>>

\* the daemon loop at rest
DaemonIdle ==
    /\ pc = "idle"
    /\ daemon_mode = FALSE
    /\ cycle_count = 0
    /\ success_count = 0
    /\ failure_count = 0
    /\ skipped_count = 0
    /\ skipped_directories = <<>>
    /\ shutdown_requested = FALSE
    /\ wait_remaining = 0
    /\ recovered_dirs = <<>>
    /\ idx = 0
    /\ caller = "none"
    /\ mount_ok = [d \in Dirs |-> TRUE]
    /\ mount_flips = 0
    /\ future = "none"
    /\ worker_pc = "none"
    /\ gen_result = <<>>
    /\ elapsed = 0
    /\ rwt_result = FALSE

----------------------------------------------------------------------------
(* Strings.  A string is the sequence of its characters; a character       *)
(* outside ASCII is written as its code point ("u7535" is U+7535).         *)

UpperChars == <<"A", "B", "C", "D", "E", "F", "G", "H", "I", "J", "K", "L", "M", "N", "O", "P", "Q", "R", "S", "T", "U", "V", "W", "X", "Y", "Z">>

LowerChars == <<"a", "b", "c", "d", "e", "f", "g", "h", "i", "j", "k", "l", "m", "n", "o", "p", "q", "r", "s", "t", "u", "v", "w", "x", "y", "z">>

\* str.lower() on one character
lower_char(c) ==
    IF \E i \in 1..Len(UpperChars) : UpperChars[i] = c
    THEN LowerChars[CHOOSE i \in 1..Len(UpperChars) : UpperChars[i] = c]
    ELSE c

\* str.lower()
lower(s) == [i \in 1..Len(s) |-> lower_char(s[i])]

\* str.startswith(prefix)
startswith(s, prefix) ==
    Len(prefix) <= Len(s) /\ SubSeq(s, 1, Len(prefix)) = prefix

\* the positions at which sub occurs in s
occurrences(s, sub) ==
    {i \in 1..(Len(s) - Len(sub) + 1) : SubSeq(s, i, i + Len(sub) - 1) = sub}

\* sub in s
contains(s, sub) == occurrences(s, sub) # {}

\* the position of the last "/" of s, 0 when it has none (str.rfind)
LastSlash(s) ==
    LET at == {i \in 1..Len(s) : s[i] = Slash}
    IN IF at = {} THEN 0 ELSE CHOOSE i \in at : \A j \in at : j <= i

RECURSIVE rstrip_slashes(_)
\* str.rstrip('/')
rstrip_slashes(s) ==
    IF s # <<>> /\ s[Len(s)] = Slash THEN rstrip_slashes(SubSeq(s, 1, Len(s) - 1)) ELSE s

RECURSIVE lstrip_slashes(_)
\* str.lstrip('/')
lstrip_slashes(s) ==
    IF s # <<>> /\ s[1] = Slash THEN lstrip_slashes(Tail(s)) ELSE s

\* str.strip('/')
strip_slashes(s) == lstrip_slashes(rstrip_slashes(s))

\* os.path.basename: what follows the last "/"
basename(p) == SubSeq(p, LastSlash(p) + 1, Len(p))

\* os.path.dirname: what precedes the last "/", without trailing "/" unless
\* it is made of "/" only
dirname(p) ==
    LET head == SubSeq(p, 1, LastSlash(p))
    IN IF rstrip_slashes(head) = <<>> THEN head ELSE rstrip_slashes(head)

RECURSIVE split_slash(_)
\* str.split('/')
split_slash(s) ==
    LET at == {i \in 1..Len(s) : s[i] = Slash}
    IN IF at = {} THEN <<s>>
       ELSE LET i == CHOOSE k \in at : \A j \in at : k <= j
            IN <<SubSeq(s, 1, i - 1)>> \o split_slash(SubSeq(s, i + 1, Len(s)))

\* os.path.splitext(p)[1]: the base name from its last "." on, empty when
\* the base name has no "." past its first character
splitext_ext(p) ==
    LET b == basename(p)
        at == {i \in 2..Len(b) : b[i] = "."}
    IN IF at = {} THEN <<>>
       ELSE SubSeq(b, CHOOSE i \in at : \A j \in at : j <= i, Len(b))

----------------------------------------------------------------------------
(* The resolver: plex/library.py find_deepest_matching_library *)

\* the value None of the resolver, as a library record
NoLibrary == [id |-> "none", name |-> <<>>, path |-> <<>>, match_score |-> 0,
              relative_path |-> <<>>, match_type |-> "none"]

\* one entry of self.libraries (plex/library.py:64)
Library(id, name, path) ==
    [id |-> id, name |-> name, path |-> path, match_score |-> 0, relative_path |-> <<>>,
     match_type |-> "none"]

\* plex/library.py:110-139 with the comparison of the lengths left out
path_match_mutant(st, lib, path_for_compare) ==
    LET lib_path_for_compare == normalize_path(lib.path)
        took(match_length, relative) ==
            [best |-> [lib EXCEPT !.match_score = match_length,
                                  !.relative_path = relative],
             max_match_length |-> match_length]
    IN IF lib.path = <<>> THEN st
       ELSE IF startswith(lower(path_for_compare), lower(lib_path_for_compare) \o <<Slash>>)
       THEN took(Len(lib_path_for_compare),
                 SubSeq(path_for_compare, Len(lib_path_for_compare) + 2, Len(path_for_compare)))
       ELSE IF startswith(lower(lib_path_for_compare), lower(path_for_compare) \o <<Slash>>)
       THEN took(Len(path_for_compare),
                 SubSeq(lib_path_for_compare, Len(path_for_compare) + 2, Len(lib_path_for_compare)))
       ELSE st

\* plex/library.py:110-139: the match by path of one library; st holds
\* best_match and max_match_length.  The mapping of mount paths (:142-161)
\* applies to dictionaries only and Config.get_mount_paths gives strings.
path_match(st, lib, path_for_compare) ==
    LET lib_path_for_compare == normalize_path(lib.path)
        took(match_length, relative) ==
            IF match_length > st.max_match_length
            THEN [best |-> [lib EXCEPT !.match_score = match_length,
                                       !.relative_path = relative],
                  max_match_length |-> match_length]
            ELSE st
    IN IF lib.path = <<>> THEN st
       ELSE IF startswith(lower(path_for_compare), lower(lib_path_for_compare) \o <<Slash>>)
       THEN took(Len(lib_path_for_compare),
                 SubSeq(path_for_compare, Len(lib_path_for_compare) + 2, Len(path_for_compare)))
       ELSE IF startswith(lower(lib_path_for_compare), lower(path_for_compare) \o <<Slash>>)
       THEN took(Len(path_for_compare),
                 SubSeq(lib_path_for_compare, Len(path_for_compare) + 2, Len(lib_path_for_compare)))
       ELSE st

\* plex/library.py:165-190 with the comparison of the scores left out
name_match_mutant(st, lib, path_for_compare) ==
    LET path_lower == lower(path_for_compare)
        library_name_lower == lower(lib.name)
        path_parts == split_slash(path_lower)
        last_part == path_parts[Len(path_parts)]
        match_score == 2 * Len(library_name_lower)
                         + (IF contains(last_part, library_name_lower) THEN 5 ELSE 0)
    IN IF lib.name = <<>> \/ ~contains(path_lower, library_name_lower) THEN st
       ELSE [best |-> [lib EXCEPT !.match_score = match_score,
                                  !.match_type = "enhanced_name_based"],
             max_match_length |-> match_score]

\* plex/library.py:165-190: the match by name of one library
name_match(st, lib, path_for_compare) ==
    LET path_lower == lower(path_for_compare)
        library_name_lower == lower(lib.name)
        path_parts == split_slash(path_lower)
        last_part == path_parts[Len(path_parts)]
        match_score == 2 * Len(library_name_lower)
                         + (IF contains(last_part, library_name_lower) THEN 5 ELSE 0)
        name_index == CHOOSE i \in occurrences(path_lower, library_name_lower) :
                          \A j \in occurrences(path_lower, library_name_lower) : i <= j
    IN IF lib.name = <<>> \/ ~contains(path_lower, library_name_lower) THEN st
       ELSE IF st.best = NoLibrary \/ match_score > st.best.match_score
       THEN [best |-> [lib EXCEPT !.match_score = match_score,
                                  !.relative_path =
                                      strip_slashes(SubSeq(path_for_compare,
                                                           name_index + Len(library_name_lower),
                                                           Len(path_for_compare))),
                                  !.match_type = "enhanced_name_based"],
             max_match_length |-> match_score]
       ELSE st

RECURSIVE match_libraries(_, _, _)
\* plex/library.py:104: for library in self.libraries
match_libraries(libs, path_for_compare, st) ==
    IF libs = <<>> THEN st
    ELSE match_libraries(Tail(libs), path_for_compare,
                         name_match(path_match(st, Head(libs), path_for_compare),
                                    Head(libs), path_for_compare))

\* plex/library.py:79-197
find_deepest_matching_library(path, libs) ==
    IF path = <<>> \/ libs = <<>> THEN NoLibrary
    ELSE IF normalize_path(path) = <<>> THEN NoLibrary
    ELSE match_libraries(libs, normalize_path(path),
                         [best |-> NoLibrary, max_match_length |-> 0]).best

----------------------------------------------------------------------------
(* SpecDispatch: plex/library.py update_library_with_files and             *)
(* _trigger_individual_file_scans                                          *)

\* plex/library.py:540
WebDAVPrefixes == {<<"/", "v", "o", "l", "0", "2", "/", "C", "l", "o", "u", "d", "D", "r", "i", "v", "e", "/", "W", "e", "b", "D", "A", "V">>,
                   <<"/", "V", "o", "l", "u", "m", "e", "s", "/", "C", "l", "o", "u", "d", "D", "r", "i", "v", "e", "/", "W", "e", "b", "D", "A", "V">>}

\* plex/library.py:576
webdav_categories == {<<"u7535", "u5f71">>, <<"u7535", "u89c6", "u5267">>,
                      <<"u7eaa", "u5f55", "u7247">>, <<"u97f3", "u4e50">>}

\* plex/library.py:975
auxiliary_extensions == {<<".", "j", "p", "g">>, <<".", "j", "p", "e", "g">>, <<".", "p", "n", "g">>, <<".", "g", "i", "f">>,
                         <<".", "n", "f", "o">>, <<".", "s", "r", "t">>, <<".", "a", "s", "s">>, <<".", "s", "u", "b">>, <<".", "i", "d", "x">>}

\* the libraries Plex reports in two configurations of the server
Libraries == <<Library("1", <<"M", "o", "v">>, <<"/", "m", "/", "M", "o", "v">>),
               Library("2", <<"T", "V", " ", "H", "D">>, <<"/", "p", "/", "t">>)>>

LibrariesAlt == <<Library("3", <<"u7535", "u5f71", "2">>, <<"/", "p", "/", "c">>)>>

LibraryIds == {"1", "2", "3"}

\* the directory arguments: inside a library path, named like a library,
\* unrelated to every library, and on a WebDAV mount
DirInLibrary == <<"/", "m", "/", "M", "o", "v", "/", "x">>

DirNamedLikeLibrary == <<"/", "d", "/", "T", "V">>

DirUnrelated == <<"/", "d", "/", "q">>

DirWebDAV == <<"/", "v", "o", "l", "0", "2", "/", "C", "l", "o", "u", "d", "D", "r", "i", "v", "e", "/", "W", "e", "b", "D", "A", "V", "/", "u7535", "u5f71", "/", "M", "o", "v">>

DispatchDirs == {DirInLibrary, DirNamedLikeLibrary, DirUnrelated, DirWebDAV}

\* the files of a directory, relative to it: a media file whose presence
\* changes, a subtitle file in another subdirectory, a small media file
RelMedia == <<"/", "s", "/", "a", ".", "m", "k", "v">>

RelSubtitle == <<"/", "t", "/", "b", ".", "s", "r", "t">>

RelSmall == <<"/", "s", "/", "c", ".", "m", "k", "v">>

\* the file_paths arguments for a directory
FileArgs(d) == { {}, {d \o RelMedia, d \o RelSubtitle},
                 {d \o RelMedia, d \o RelSubtitle, d \o RelSmall} }

AllFiles == UNION {UNION FileArgs(d) : d \in DispatchDirs}

\* the name of a file of the model relative to its directory argument
relative_name == [f \in AllFiles |->
                     CHOOSE r \in {RelMedia, RelSubtitle, RelSmall} :
                         \E d \in DispatchDirs : f = d \o r]

\* plex/library.py:554: MIN_FILE_SIZE, 10 * 1024 * 1024 bytes, in MiB
min_file_size == 10

\* os.path.getsize, in MiB
getsize(f) == IF relative_name[f] = RelSmall THEN 2 ELSE 15

\* os.path.exists for the files of the model
path_exists(f) == relative_name[f] \in disk

\* plex/library.py:630-665: the files that exist and reach the threshold
valid_files(file_paths) ==
    {f \in file_paths : path_exists(f) /\ getsize(f) >= min_file_size}

\* plex/library.py:877-900 _calculate_files_checksum: the MD5 digest of the
\* sorted paths joined by newlines, taken to be free of collisions
_calculate_files_checksum(file_paths) == <<"md5", file_paths>>

\* plex/library.py:928-945 _normalize_path_for_comparison
_normalize_path_for_comparison(path) == lower(normalize_path(path))

NoSnapshot == [exists |-> FALSE, checksum |-> <<>>, files |-> {}]

\* plex/library.py:902-926 _save_files_snapshot: the record written
files_snapshot(file_paths, checksum) ==
    [exists |-> TRUE, checksum |-> checksum, files |-> file_paths]

\* the first library of the list, in order, among those at the indices ok
first_library(libs, ok) ==
    IF ok = {} THEN NoLibrary ELSE libs[CHOOSE i \in ok : \A j \in ok : i <= j]

\* plex/library.py:568-599: the matching for WebDAV paths once the resolver
\* found nothing: by category, then by directory name
webdav_match(directory, libs) ==
    LET parts == split_slash(directory)
        at == {i \in 1..Len(parts) : parts[i] \in webdav_categories}
        by_category ==
            IF at = {} THEN NoLibrary
            ELSE LET category_match == parts[CHOOSE i \in at : \A j \in at : i <= j]
                 IN first_library(libs, {i \in 1..Len(libs) :
                        contains(lower(libs[i].name), lower(category_match))})
        directory_name == basename(directory)
    IN IF by_category # NoLibrary THEN by_category
       ELSE first_library(libs, {i \in 1..Len(libs) :
                \/ contains(lower(libs[i].name), lower(directory_name))
                \/ contains(lower(directory_name), lower(libs[i].name))})

backup_match_mutant(directory, libs) == Head(libs)

\* plex/library.py:606-615: the first library whose name holds the name of
\* the directory
backup_match(directory, libs) ==
    IF basename(directory) = <<>> THEN NoLibrary
    ELSE first_library(libs, {i \in 1..Len(libs) :
             contains(lower(libs[i].name), lower(basename(directory)))})

\* plex/library.py:565-624: the library the update goes to
library_for(directory, libs) ==
    LET resolved == find_deepest_matching_library(directory, libs)
        is_webdav_path == \E prefix \in WebDAVPrefixes : startswith(directory, prefix)
        enhanced == IF resolved = NoLibrary /\ is_webdav_path
                    THEN webdav_match(directory, libs) ELSE resolved
    IN IF enhanced = NoLibrary THEN backup_match(directory, libs) ELSE enhanced

LibraryConfigs == {<<>>, Libraries, LibrariesAlt}

\* the resolver, and the library the update goes to, for every directory
\* and list of libraries of the model
resolved_library == [libs \in LibraryConfigs |-> [d \in DispatchDirs |->
                        find_deepest_matching_library(d, libs)]]

update_library == [libs \in LibraryConfigs |-> [d \in DispatchDirs |->
                      library_for(d, libs)]]

\* plex/library.py:540 for the directories of the model
is_webdav_path == [d \in DispatchDirs |->
                      \E prefix \in WebDAVPrefixes : startswith(d, prefix)]

\* what Plex may report for a file: its path in lower case
plex_path(f) == lower(f)

\* _normalize_path_for_comparison, for the paths of the model
comparison_path == [f \in AllFiles \cup {plex_path(g) : g \in AllFiles} |->
                       _normalize_path_for_comparison(f)]

\* os.path.dirname, for the files of the model
file_directory == [f \in AllFiles |-> dirname(f)]

\* plex/library.py:672: config.get('USE_INCREMENTAL_UPDATE', True), the key
\* has no default in utils/config.py
USE_INCREMENTAL_UPDATE == TRUE

\* plex/library.py:842
max_retries == 3

\* plex/library.py:965: 'webdav' in fp.lower(), for the files of the model
holds_webdav == [f \in AllFiles |-> contains(lower(f), <<"w", "e", "b", "d", "a", "v">>)]

\* plex/library.py:982-983: the extension is an auxiliary one
is_auxiliary == [f \in AllFiles |-> splitext_ext(lower(f)) \in auxiliary_extensions]

\* plex/library.py:965-992: duplicates go; when a path holds "webdav", the
\* files with an auxiliary extension go too
unique_file_paths(file_paths) ==
    IF \E fp \in file_paths : holds_webdav[fp]
    THEN {f \in file_paths : ~is_auxiliary[f]}
    ELSE file_paths

files_counted_mutant(files_in_dir, scan_result) == Cardinality(files_in_dir)

\* plex/library.py:1188-1192: what one refresh call adds to success_count
files_counted(files_in_dir, scan_result) ==
    IF scan_result THEN Cardinality(files_in_dir) ELSE 0

RECURSIVE scan_directories(_, _, _)
\* plex/library.py:1178-1222: one refresh call per directory; accepted holds
\* the directories whose call Plex accepts
scan_directories(dirs, files, accepted) ==
    IF dirs = {} THEN 0
    ELSE LET dir_path == CHOOSE d \in dirs : TRUE
         IN files_counted({f \in files : file_directory[f] = dir_path}, dir_path \in accepted)
              + scan_directories(dirs \ {dir_path}, files, accepted)

\* plex/library.py:947-1246 for fewer than 50 files (:1009), which is what
\* the calls explored here hold: the files are grouped by their directory
_trigger_individual_file_scans(file_paths, accepted) ==
    LET files == unique_file_paths(file_paths)
        directories_to_scan == {file_directory[f] : f \in files}
    IN [success_count |-> scan_directories(directories_to_scan, files, accepted),
        refresh_calls |-> {[dir |-> d, accepted |-> d \in accepted] :
                              d \in directories_to_scan},
        files |-> files]

new_file_paths_mutant(file_paths, known) == file_paths

\* plex/library.py:725-728 and :763-768: the files whose path, normalized for
\* the comparison, is not among the known ones
new_file_paths(file_paths, known) ==
    {f \in file_paths : comparison_path[f] \notin known}

NoUpdate == [directory |-> <<>>, file_paths |-> {}, resolved |-> "none",
             library |-> "none", mode |-> "none", files_to_scan |-> {},
             refresh_calls |-> {}, result |-> 0, returned |-> TRUE, repeat |-> FALSE,
             valid_file_paths |-> {}, has_old_snapshot |-> FALSE, old_files |-> {},
             plex_error |-> FALSE, plex_files |-> {}, new_files |-> {}]

DispatchInit ==
    /\ disp_libraries \in LibraryConfigs
    /\ disk \in {{RelSubtitle, RelSmall}, {RelMedia, RelSubtitle, RelSmall}}
    /\ disk_changes = 0
    /\ disk_changed = FALSE
    /\ library_snapshot = [id \in LibraryIds |-> NoSnapshot]
    /\ webdav_count = [d \in DispatchDirs |-> 0]
    /\ retry_count = 0
    /\ last_call = NoUpdate

\* the environment: the media file appears or disappears
DiskChange ==
    /\ disk_changes < MaxDiskChanges
    /\ disk_changes' = disk_changes + 1
    /\ disk' = IF RelMedia \in disk THEN disk \ {RelMedia} ELSE disk \cup {RelMedia}
    /\ disk_changed' = TRUE
    /\ UNCHANGED <<disp_libraries, library_snapshot, webdav_count, retry_count, last_call>>
    /\ UNCHANGED not_dispatch_vars

\* plex/library.py:529-875 update_library_with_files(directory, file_paths),
\* up to its return or to the refresh loop of a full scan.  What
\* get_library_files does (it fails, or gives the paths Plex holds) and the
\* directories whose refresh call Plex accepts are chosen where the code
\* comes to them.
UpdateLibraryWithFiles(directory, file_paths) ==
    LET resolved == resolved_library[disp_libraries][directory]
        library == update_library[disp_libraries][directory]
        valid_file_paths == valid_files(file_paths)
        web_dav_process_count == webdav_count[directory] + 1
        use_incremental_update ==
            USE_INCREMENTAL_UPDATE
               /\ ~(is_webdav_path[directory] /\ web_dav_process_count % 10 = 0)
        old == library_snapshot[library.id]
        current_files_checksum == _calculate_files_checksum(valid_file_paths)
        unchanged == old.exists /\ old.checksum # <<>> /\ old.checksum = current_files_checksum
        call == [directory |-> directory, file_paths |-> file_paths,
                 resolved |-> resolved.id, library |-> "none", mode |-> "none",
                 files_to_scan |-> {}, refresh_calls |-> {}, result |-> 0,
                 returned |-> TRUE,
                 repeat |-> /\ last_call # NoUpdate
                            /\ last_call.directory = directory
                            /\ last_call.file_paths = file_paths
                            /\ ~disk_changed,
                 \* what the call found on its way, kept for the claims
                 valid_file_paths |-> {}, has_old_snapshot |-> FALSE, old_files |-> {},
                 plex_error |-> FALSE, plex_files |-> {}, new_files |-> {}]
        \* :779-803: the files to scan are scanned, if there are any
        scanned(files_to_scan, accepted) ==
            LET scans == _trigger_individual_file_scans(files_to_scan, accepted)
                found == [call EXCEPT !.library = library.id,
                                      !.valid_file_paths = valid_file_paths,
                                      !.has_old_snapshot = old.exists,
                                      !.old_files = old.files,
                                      !.new_files = files_to_scan]
            IN IF files_to_scan = {}
               THEN [found EXCEPT !.mode = "nothing_new"]
               ELSE [found EXCEPT !.mode = "incremental",
                                  !.files_to_scan = scans.files,
                                  !.refresh_calls = scans.refresh_calls,
                                  !.result = scans.success_count]
        not_among(known) == new_file_paths(valid_file_paths, known)
        valid_directories == {file_directory[f] : f \in valid_file_paths}
    IN /\ last_call.returned
       /\ is_webdav_path[directory] => webdav_count[directory] < MaxWebdavCalls
       /\ disk_changed' = FALSE
       /\ retry_count' = 0
       /\ IF disp_libraries = <<>>
          THEN \* :545-547
               /\ last_call' = [call EXCEPT !.mode = "not_initialized"]
               /\ UNCHANGED <<library_snapshot, webdav_count>>
          ELSE IF file_paths = {}
          THEN \* :549-551
               /\ last_call' = [call EXCEPT !.mode = "no_files"]
               /\ UNCHANGED <<library_snapshot, webdav_count>>
          ELSE IF library = NoLibrary
          THEN \* :623-624
               /\ last_call' = [call EXCEPT !.mode = "no_library"]
               /\ UNCHANGED <<library_snapshot, webdav_count>>
          ELSE IF valid_file_paths = {}
          THEN \* :667-669
               /\ last_call' = [call EXCEPT !.library = library.id, !.mode = "no_valid_files"]
               /\ UNCHANGED <<library_snapshot, webdav_count>>
          ELSE /\ webdav_count' = IF is_webdav_path[directory]
                                  THEN [webdav_count EXCEPT ![directory] = web_dav_process_count]
                                  ELSE webdav_count
               /\ IF use_incremental_update /\ ~old.exists
                  THEN \* :705-741: no snapshot yet; the files Plex does not
                       \* hold are to be scanned and the snapshot is saved
                       /\ library_snapshot' =
                             [library_snapshot EXCEPT ![library.id] =
                                 files_snapshot(valid_file_paths, current_files_checksum)]
                       /\ \E plex_error \in BOOLEAN,
                             plex_files \in SUBSET {plex_path(f) : f \in valid_file_paths},
                             accepted \in SUBSET valid_directories :
                             last_call' =
                                [scanned(IF plex_error THEN valid_file_paths
                                         ELSE not_among({comparison_path[g] : g \in plex_files}),
                                         accepted)
                                    EXCEPT !.plex_error = plex_error,
                                           !.plex_files = IF plex_error THEN {}
                                                          ELSE plex_files]
                  ELSE IF unchanged
                  THEN \* :754-757 and :825-828
                       /\ last_call' = [call EXCEPT !.library = library.id, !.mode = "unchanged"]
                       /\ UNCHANGED library_snapshot
                  ELSE IF use_incremental_update
                  THEN \* :758-772: the files the snapshot does not hold are
                       \* to be scanned and the snapshot is saved
                       /\ library_snapshot' =
                             [library_snapshot EXCEPT ![library.id] =
                                 files_snapshot(valid_file_paths, current_files_checksum)]
                       /\ \E accepted \in SUBSET valid_directories :
                             last_call' =
                                scanned(not_among({comparison_path[g] : g \in old.files}),
                                        accepted)
                  ELSE \* :804-846: a full scan of the directory begins; the
                       \* snapshot is left as it is (:832)
                       /\ last_call' = [call EXCEPT !.library = library.id,
                                                    !.mode = "full",
                                                    !.files_to_scan = file_paths,
                                                    !.returned = FALSE]
                       /\ UNCHANGED library_snapshot

UpdateCall ==
    /\ \E directory \in DispatchDirs :
          \E file_paths \in FileArgs(directory) :
             UpdateLibraryWithFiles(directory, file_paths)
    /\ UNCHANGED <<disp_libraries, disk, disk_changes>>
    /\ UNCHANGED not_dispatch_vars

\* plex/library.py:846-870: one turn of the refresh loop of a full scan.
\* retry_count stops growing at max_retries - 1, so the loop goes on until a
\* request is accepted.
FullScan(scan_result) ==
    /\ ~last_call.returned
    /\ last_call' = [last_call EXCEPT
                        !.refresh_calls = @ \cup {[dir |-> last_call.directory,
                                                   accepted |-> scan_result]},
                        !.result = IF scan_result THEN Cardinality(last_call.file_paths) ELSE 0,
                        !.returned = scan_result]
    /\ retry_count' = IF ~scan_result /\ retry_count < max_retries - 1
                      THEN retry_count + 1 ELSE retry_count
    /\ UNCHANGED <<disp_libraries, disk, disk_changes, disk_changed, library_snapshot,
                   webdav_count>>
    /\ UNCHANGED not_dispatch_vars

DispatchNext ==
    \/ DiskChange
    \/ UpdateCall
    \/ \E scan_result \in BOOLEAN : FullScan(scan_result)

\* the dispatcher at rest
DispatchIdle ==
    /\ disp_libraries = <<>>
    /\ disk = {}
    /\ disk_changes = 0
    /\ disk_changed = FALSE
    /\ library_snapshot = [id \in LibraryIds |-> NoSnapshot]
    /\ webdav_count = [d \in DispatchDirs |-> 0]
    /\ retry_count = 0
    /\ last_call = NoUpdate

----------------------------------------------------------------------------
(* SpecScan: snapshot_utils.py generate_snapshot, the directory scanner, as *)
(* SnapshotManager.generate_snapshot calls it (utils/snapshot.py:133-142:   *)
(* max_files = 0, skip_large = False, min_size = 0).  The file the core     *)
(* writes at output_file is the snapshot of the scan.                       *)

\* calls of the scanner in a run, and failures of os.path.getsize in a call
MaxScanCalls == 2

MaxStatFailures == 1

\* the characters of the paths and messages of the model, in the order of
\* their UTF-8 bytes
ByteOrder == <<" ", "'", "-", ".", "/", "0", "1", "2", "3", "4", "5", "6", "7", "8", "9", ":", "A", "B", "C", "D", "E", "F", "G", "H", "I", "J", "K", "L", "M", "N", "O", "P", "Q", "R", "S", "T", "U", "V", "W", "X", "Y", "Z", "[", "]", "_", "a", "b", "c", "d", "e", "f", "g", "h", "i", "j", "k", "l", "m", "n", "o", "p", "q", "r", "s", "t", "u", "v", "w", "x", "y", "z">>

\* the byte of an ASCII character
ord(c) == CHOOSE i \in 1..Len(ByteOrder) : ByteOrder[i] = c

RECURSIVE bytes_less(_, _)
\* a < b on bytes objects: the first differing byte decides, a proper prefix
\* is smaller
bytes_less(a, b) ==
    IF b = <<>> THEN FALSE
    ELSE IF a = <<>> THEN TRUE
    ELSE IF Head(a) = Head(b) THEN bytes_less(Tail(a), Tail(b))
    ELSE ord(Head(a)) < ord(Head(b))

\* snapshot_utils.py:54-65
AUXILIARY_FILE_EXTENSIONS == {
    <<".", "j", "p", "g">>, <<".", "j", "p", "e", "g">>, <<".", "p", "n", "g">>,
    <<".", "b", "m", "p">>, <<".", "g", "i", "f">>, <<".", "s", "r", "t">>, <<".", "a", "s", "s">>,
    <<".", "s", "s", "a">>, <<".", "s", "u", "b">>, <<".", "i", "d", "x">>, <<".", "n", "f", "o">>,
    <<".", "t", "x", "t">>, <<".", "u", "r", "l">>, <<".", "x", "m", "l">>, <<".", "i", "n", "i">>,
    <<".", "l", "o", "g">>, <<".", "d", "b">>, <<".", "d", "a", "t">>, <<".", "i", "n", "f", "o">>,
    <<".", "m", "d">>, <<".", "m", "e", "t", "a", "d", "a", "t", "a">>,
    <<".", "p", "l", "e", "x">>, <<".", "t", "m", "d", "b">>,
    <<".", "t", "h", "e", "m", "o", "v", "i", "e", "d", "b">>, <<".", "t", "v", "d", "b">>,
    <<".", "t", "h", "e", "t", "v", "d", "b">> }

\* snapshot_utils.py:103: the keywords of poster and cover file names
auxiliary_keywords == {
    <<"p", "o", "s", "t", "e", "r">>, <<"c", "o", "v", "e", "r">>,
    <<"f", "a", "n", "a", "r", "t">>, <<"d", "i", "s", "c", "a", "r", "t">>,
    <<"f", "o", "l", "d", "e", "r">> }

\* snapshot_utils.py:108: the extensions a keyword does not disqualify
video_extensions == {
    <<".", "m", "p", "4">>, <<".", "m", "k", "v">>, <<".", "a", "v", "i">>, <<".", "m", "o", "v">>,
    <<".", "w", "m", "v">>, <<".", "f", "l", "v">>, <<".", "m", "4", "v">> }

\* os.path.splitext(name)[1] for a file name without directory part
file_ext(name) ==
    LET at == {i \in 2..Len(name) : name[i] = "."}
    IN IF at = {} THEN <<>>
       ELSE SubSeq(name, CHOOSE i \in at : \A j \in at : j <= i, Len(name))

is_auxiliary_file_mutant(file_path) ==
    file_ext(basename(file_path)) \in AUXILIARY_FILE_EXTENSIONS

\* snapshot_utils.py:84-111: the extension of the lower-cased base name is in
\* the list, or the name holds a keyword and has no video extension
is_auxiliary_file(file_path) ==
    LET file_name == lower(basename(file_path))
        ext == file_ext(file_name)
    IN \/ ext \in AUXILIARY_FILE_EXTENSIONS
       \/ /\ \E keyword \in auxiliary_keywords : contains(file_name, keyword)
          /\ ext \notin video_extensions

\* utils/snapshot.py:115 MIN_FILE_SIZE_MB as configured: no filter, or the
\* default of 10 MB
MinSizeMbInputs == {0, 10}

\* snapshot_utils.py:313-329: min_size_bytes from min_size and min_size_mb
\* (whole numbers of MB here, so int() changes nothing)
min_size_bytes(min_size, min_size_mb) ==
    LET min_size_mb_val == IF min_size_mb < 0 THEN 0
                           ELSE IF min_size_mb > 10000 THEN 10
                           ELSE min_size_mb
        from_mb == min_size_mb_val * 1024 * 1024
    IN IF min_size > from_mb THEN min_size ELSE from_mb

below_min_size_mutant(file_size_bytes, threshold) ==
    threshold > 0 /\ file_size_bytes <= threshold

\* snapshot_utils.py:470: "if min_size_bytes > 0 and file_size < min_size_bytes"
below_min_size(file_size_bytes, threshold) ==
    threshold > 0 /\ file_size_bytes < threshold

\* the roots of the model: a local tree and a tree under the WebDAV mount
ScanRoot == <<"/", "t">>

ScanRootWebDAV == <<"/", "v", "o", "l", "0", "2", "/", "C", "l", "o", "u", "d", "D", "r", "i", "v", "e", "/", "W", "e", "b", "D", "A", "V", "/", "t">>

ScanRoots == {ScanRoot, ScanRootWebDAV}

\* EXCLUDE_PATHS as configured (utils/config.py:393-410)
exclude_paths == << <<"/", "t", "/", "x">> >>

\* the files the local tree may hold
FileExact == <<"/", "t", "/", "a", ".", "m", "k", "v">>

FileBelow == <<"/", "t", "/", "b", ".", "m", "k", "v">>

FileSubtitle == <<"/", "t", "/", "C", ".", "S", "R", "T">>

FileUnderExcluded == <<"/", "t", "/", "x", "/", "d", ".", "m", "k", "v">>

FileNearExcluded == <<"/", "t", "/", "x", "y", ".", "m", "k", "v">>

FilePoster == <<"/", "t", "/", "p", "o", "s", "t", "e", "r", ".", "j", "p", "g">>

ScanFiles == {FileExact, FileBelow, FileSubtitle, FileUnderExcluded, FileNearExcluded,
              FilePoster}

\* os.path.getsize in bytes: one file is exactly as large as the default
\* threshold of 10 MB, one is a byte smaller; the subtitle is larger than the
\* threshold, the poster smaller
scan_getsize == [f \in ScanFiles |->
                   IF f = FileExact THEN 10485760
                   ELSE IF f = FileBelow THEN 10485759
                   ELSE IF f = FileSubtitle THEN 20971520
                   ELSE IF f = FilePoster THEN 4096
                   ELSE 31457280]

\* the trees of the model
ScanTrees == { {}, {FileExact, FileBelow, FileSubtitle},
               {FileExact, FileUnderExcluded, FileNearExcluded},
               {FileNearExcluded, FileSubtitle, FilePoster}, {FileBelow} }

\* str(e) of the exceptions os.path.getsize raises in the model
ErrorMessages == { <<"[", "E", "r", "r", "n", "o", " ", "1", "1", "0", "]", " ", "C", "o", "n", "n", "e", "c", "t", "i", "o", "n", " ", "t", "i", "m", "e", "d", " ", "o", "u", "t">>,
                   <<"[", "E", "r", "r", "n", "o", " ", "1", "3", "]", " ", "P", "e", "r", "m", "i", "s", "s", "i", "o", "n", " ", "d", "e", "n", "i", "e", "d">> }

no_error == <<>>

\* snapshot_utils.py:498: the keywords that make a failure a connection error
connection_keywords == {
    <<"s", "m", "b">>, <<"c", "o", "n", "n", "e", "c", "t", "i", "o", "n">>,
    <<"t", "i", "m", "e", "o", "u", "t">>, <<"t", "i", "m", "e", "d", " ", "o", "u", "t">>,
    <<"u", "n", "a", "v", "a", "i", "l", "a", "b", "l", "e">>,
    <<"d", "i", "s", "c", "o", "n", "n", "e", "c", "t">>, <<"w", "e", "b", "d", "a", "v">> }

\* snapshot_utils.py:498: any(kw in error_msg.lower() for kw in [...])
is_connection_error == [msg \in ErrorMessages |->
                          \E kw \in connection_keywords : contains(lower(msg), kw)]

\* utils/path_utils.py:65-101 PathUtils.is_excluded
is_excluded(path, exclude_list) ==
    IF path = <<>> \/ exclude_list = <<>> THEN FALSE
    ELSE \E i \in 1..Len(exclude_list) :
            \/ normalize_path(path) = normalize_path(exclude_list[i])
            \/ startswith(normalize_path(path), normalize_path(exclude_list[i]) \o <<Slash>>)

\* is_excluded for the files of the model
excluded_file == [f \in ScanFiles |-> is_excluded(f, exclude_paths)]

auxiliary_file == [f \in ScanFiles |-> is_auxiliary_file(f)]

\* the files whose extension, in lower case, is in AUXILIARY_FILE_EXTENSIONS
has_auxiliary_extension ==
    [f \in ScanFiles |-> file_ext(lower(basename(f))) \in AUXILIARY_FILE_EXTENSIONS]

\* the order of the paths of the model as bytes
path_less == [a \in ScanFiles |-> [b \in ScanFiles |-> bytes_less(a, b)]]

RECURSIVE insert_sorted(_, _)
insert_sorted(x, s) ==
    IF s = <<>> THEN <<x>>
    ELSE IF path_less[x][Head(s)] THEN <<x>> \o s
    ELSE <<Head(s)>> \o insert_sorted(x, Tail(s))

RECURSIVE insertion_sort(_)
insertion_sort(s) ==
    IF s = <<>> THEN <<>> ELSE insert_sorted(Head(s), insertion_sort(Tail(s)))

sorted_mutant(s) == s

\* snapshot_utils.py:1077 sorted(file_paths): ascending bytes
sorted(s) == insertion_sort(s)

os_walk_mutant(files_on_disk, root_ok) == files_on_disk

\* snapshot_utils.py:656 os.walk(dir): the files under dir; an error of the
\* listing of dir is ignored (onerror is None) and nothing is yielded
os_walk(files_on_disk, root_ok) == IF root_ok THEN files_on_disk ELSE {}

process_file_mutant(file_path, error_msg, threshold, locals) ==
    IF auxiliary_file[file_path]
    THEN [locals EXCEPT !.skipped_auxiliary = @ + 1]
    ELSE IF error_msg = no_error /\ below_min_size(scan_getsize[file_path], threshold)
    THEN [locals EXCEPT !.skipped_small = @ + 1]
    ELSE [locals EXCEPT !.file_paths = Append(@, file_path),
                        !.success_count = @ + 1,
                        !.error_count = 0]

\* snapshot_utils.py:446-520 process_file on the variables of the core it
\* updates; error_msg is the message of the exception os.path.getsize
\* raises, no_error when it returns the size
process_file(file_path, error_msg, threshold, locals) ==
    IF auxiliary_file[file_path]
    THEN [locals EXCEPT !.skipped_auxiliary = @ + 1]
    ELSE IF error_msg # no_error
    THEN IF is_connection_error[error_msg]
         THEN [locals EXCEPT !.error_count = @ + 1,
                             !.smb_errors = @ + 1,
                             !.success_count = 0]
         ELSE locals
    ELSE IF below_min_size(scan_getsize[file_path], threshold)
    THEN [locals EXCEPT !.skipped_small = @ + 1]
    ELSE [locals EXCEPT !.file_paths = Append(@, file_path),
                        !.success_count = @ + 1,
                        !.error_count = 0]

\* snapshot_utils.py:332-358: the variables of the core when the scan starts
core_locals == [file_paths |-> <<>>, skipped_small |-> 0, skipped_auxiliary |-> 0,
                error_count |-> 0, success_count |-> 0, smb_errors |-> 0]

\* utils/snapshot.py:133-215: what SnapshotManager makes of the scan: the
\* record of the files when the count is positive, a failure otherwise and
\* when the scan raised
manager_result(outcome, output) ==
    IF outcome.raised THEN <<"", <<>>, FALSE>>
    ELSE IF outcome.value > 0 THEN <<"snapshot", output, TRUE>>
    ELSE <<"", <<>>, FALSE>>

NoScan == [dir |-> <<>>, tree |-> {}, root_ok |-> TRUE, min_size_mb |-> 0]

ScanInit ==
    /\ sc_pc = "idle"
    /\ sc_is_docker \in BOOLEAN
    /\ sc_in = NoScan
    /\ sc_pending = {}
    /\ sc_locals = core_locals
    /\ sc_failed = {}
    /\ sc_timed_out = FALSE
    /\ sc_core = Returned(0)
    /\ sc_output = <<>>
    /\ sc_written = FALSE
    /\ sc_calls = 0
    /\ sc_result = <<"", <<>>, FALSE>>

\* utils/snapshot.py:133 and snapshot_utils.py:272-286: generate_snapshot is
\* called; for a directory under the WebDAV mount the log line of :284 raises
GenerateSnapshotStart(dir, files_on_disk, root_ok, min_size_mb) ==
    /\ sc_pc \in {"idle", "returned"}
    /\ sc_calls < MaxScanCalls
    /\ sc_calls' = sc_calls + 1
    /\ sc_in' = [dir |-> dir, tree |-> files_on_disk, root_ok |-> root_ok,
                 min_size_mb |-> min_size_mb]
    /\ sc_locals' = core_locals
    /\ sc_failed' = {}
    /\ sc_timed_out' = FALSE
    /\ sc_written' = FALSE
    /\ sc_core' = Returned(0)
    /\ sc_pending' = {}
    /\ IF (\E prefix \in WebDAVPrefixes : startswith(dir, prefix)) /\ logger_logger_raises
       THEN /\ sc_pc' = "returned"
            /\ sc_result' = manager_result(Raised, sc_output)
       ELSE /\ sc_pc' = "collect"
            /\ sc_result' = sc_result
    /\ UNCHANGED <<sc_is_docker, sc_output>>
    /\ UNCHANGED not_scan_vars

\* snapshot_utils.py:654-671 and 854-1006: the files are collected and handed
\* to the pool in one batch (batch_size is 500).  Outside Docker the first
\* pass of the loop reads new_workers at :992, which nothing has bound: with
\* the default SMB_MAX_WORKERS current_workers is both min_workers and
\* max_workers, so neither :922 nor :984 binds it, and the core returns
\* -ERROR_UNKNOWN (:1462-1464)
CollectFiles ==
    /\ sc_pc = "collect"
    /\ LET temp_file_paths == os_walk(sc_in.tree, sc_in.root_ok)
       IN IF temp_file_paths # {} /\ ~sc_is_docker
          THEN /\ sc_pc' = "wrapper"
               /\ sc_core' = Returned(0 - ERROR_UNKNOWN)
               /\ sc_pending' = {}
          ELSE /\ sc_pc' = "workers"
               /\ sc_core' = sc_core
               /\ sc_pending' = temp_file_paths
    /\ UNCHANGED <<sc_is_docker, sc_in, sc_locals, sc_failed, sc_timed_out, sc_output,
                   sc_written, sc_calls, sc_result>>
    /\ UNCHANGED not_scan_vars

\* snapshot_utils.py:446-520: a worker runs process_file on one of the files
\* handed to the pool; os.path.getsize may raise
ProcessFile(file_path, error_msg) ==
    /\ sc_pc = "workers"
    /\ file_path \in sc_pending
    /\ error_msg # no_error =>
          /\ ~auxiliary_file[file_path]
          /\ Cardinality(sc_failed) < MaxStatFailures
    /\ sc_pending' = sc_pending \ {file_path}
    /\ sc_locals' = process_file(file_path, error_msg,
                                 min_size_bytes(0, sc_in.min_size_mb), sc_locals)
    /\ sc_failed' = IF error_msg # no_error
                    THEN sc_failed \cup {[file |-> file_path, error_msg |-> error_msg]}
                    ELSE sc_failed
    /\ UNCHANGED <<sc_pc, sc_is_docker, sc_in, sc_timed_out, sc_core, sc_output,
                   sc_written, sc_calls, sc_result>>
    /\ UNCHANGED not_scan_vars

\* utils/timeout_decorator.py:127: future.result(timeout) gives up while the
\* core is still running; the core goes on in its thread and the exit of the
\* "with" block waits for it
DeadlineExpires ==
    /\ sc_pc \in {"collect", "workers"}
    /\ ~sc_timed_out
    /\ sc_timed_out' = TRUE
    /\ UNCHANGED <<sc_pc, sc_is_docker, sc_in, sc_pending, sc_locals, sc_failed, sc_core,
                   sc_output, sc_written, sc_calls, sc_result>>
    /\ UNCHANGED not_scan_vars

\* snapshot_utils.py:1008-1012 and 1076-1461: every worker has finished; the
\* list is sorted; with no file the file at output_file is removed and the
\* core returns 0, otherwise the list is written there and the core returns
\* the number of files, or the write fails and it returns an error code
WriteSnapshot(write_ok) ==
    /\ sc_pc = "workers"
    /\ sc_pending = {}
    /\ LET files == sorted(sc_locals.file_paths)
       IN IF files = <<>>
          THEN /\ sc_output' = <<>>
               /\ sc_written' = FALSE
               /\ sc_core' = Returned(0)
          ELSE IF write_ok
          THEN /\ sc_output' = files
               /\ sc_written' = TRUE
               /\ sc_core' = Returned(Len(files))
          ELSE /\ sc_output' = sc_output
               /\ sc_written' = FALSE
               /\ sc_core' = Returned(0 - ERROR_IO)
    /\ sc_pc' = "wrapper"
    /\ UNCHANGED <<sc_is_docker, sc_in, sc_pending, sc_locals, sc_failed, sc_timed_out,
                   sc_calls, sc_result>>
    /\ UNCHANGED not_scan_vars

\* snapshot_utils.py:1472-1516 and utils/snapshot.py:144-215: the wrapper
\* ends, run_with_timeout returns, generate_snapshot ends and SnapshotManager
\* builds its result
ScanReturn ==
    /\ sc_pc = "wrapper"
    /\ sc_pc' = "returned"
    /\ sc_result' =
          manager_result(
              generate_snapshot_end(
                  scan_run_with_timeout(_snapshot_wrapper(sc_core), sc_timed_out),
                  Len(sc_output)),
              sc_output)
    /\ UNCHANGED <<sc_is_docker, sc_in, sc_pending, sc_locals, sc_failed, sc_timed_out,
                   sc_core, sc_output, sc_written, sc_calls>>
    /\ UNCHANGED not_scan_vars

ScanNext ==
    \/ \E dir \in ScanRoots, files_on_disk \in ScanTrees, root_ok \in BOOLEAN,
          min_size_mb \in MinSizeMbInputs :
          GenerateSnapshotStart(dir, files_on_disk, root_ok, min_size_mb)
    \/ CollectFiles
    \/ \E file_path \in ScanFiles, error_msg \in ErrorMessages \cup {no_error} :
          ProcessFile(file_path, error_msg)
    \/ DeadlineExpires
    \/ \E write_ok \in BOOLEAN : WriteSnapshot(write_ok)
    \/ ScanReturn

\* the scanner at rest
ScanIdle ==
    /\ sc_pc = "idle"
    /\ sc_is_docker = TRUE
    /\ sc_in = NoScan
    /\ sc_pending = {}
    /\ sc_locals = core_locals
    /\ sc_failed = {}
    /\ sc_timed_out = FALSE
    /\ sc_core = Returned(0)
    /\ sc_output = <<>>
    /\ sc_written = FALSE
    /\ sc_calls = 0
    /\ sc_result = <<"", <<>>, FALSE>>

----------------------------------------------------------------------------
(* SpecResolve: the two resolvers of the repository on the same path and   *)
(* targets: plex/library.py PlexLibraryManager.find_deepest_matching_library *)
(* and library_utils.py find_deepest_matching_library                      *)

\* the longest list of targets explored
MaxTargets == 2

\* one library as the server reports it: id, name, root path and declared
\* type (plex/library.py:64; library_utils.py:58-59 prints id|path|type)
Target(id, name, path, type) == [id |-> id, name |-> name, path |-> path, type |-> type]

TargetMedia == Target("1", <<"M", "e", "d", "i", "a">>, <<"/", "m", "e", "d", "i", "a">>, "unknown")

TargetMovies == Target("2", <<"M", "o", "v", "i", "e", "s">>, <<"/", "m", "e", "d", "i", "a", "/", "M", "o", "v", "i", "e", "s">>, "movie")

TargetFilms == Target("3", <<"F", "i", "l", "m", "s">>, <<"/", "m", "e", "d", "i", "a">>, "movie")

TargetShows == Target("4", <<"S", "h", "o", "w", "s">>, <<"/", "m", "e", "d", "i", "a", "/", "M", "o", "v", "i", "e", "s">>, "show")

TargetCartoons == Target("5", <<"C", "a", "r", "t", "o", "o", "n", "s">>, <<"/", "m", "e", "d", "i", "a">>, "unknown")

TargetExtras == Target("6", <<"E", "x", "t", "r", "a", "s">>, <<"/", "m", "e", "d", "i", "a", "/", "M", "o", "v", "i", "e", "s", "/", "F", "o", "o", "/", "E", "x", "t", "r", "a", "s">>, "movie")

Targets == {TargetMedia, TargetMovies, TargetFilms, TargetShows, TargetCartoons,
            TargetExtras}

\* the lists of distinct targets a call may meet
TargetLists ==
    {s \in UNION {[1..n -> Targets] : n \in 0..MaxTargets} :
        \A i, j \in DOMAIN s : i # j => s[i] # s[j]}

PathUnderMovies == <<"/", "m", "e", "d", "i", "a", "/", "M", "o", "v", "i", "e", "s", "/", "F", "o", "o">>

\* a path whose last segment holds the name of a target and more
PathExtras2 == <<"/", "m", "e", "d", "i", "a", "/", "M", "o", "v", "i", "e", "s", "/", "E", "x", "t", "r", "a", "s", "2">>

ResolvePaths == {PathUnderMovies, <<"/", "m", "e", "d", "i", "a", "/", "M", "o", "v", "i", "e", "s", "/", "F", "o", "o", "/">>, <<"/", "m", "e", "d", "i", "a", "/", "M", "o", "v", "i", "e", "s">>,
                 <<"/", "m", "e", "d", "i", "a", "/", "M", "o", "v", "i", "e", "s", "x", "/", "F", "o", "o">>, <<"/", "m", "e", "d", "i", "a", "/", "m", "o", "v", "i", "e", "s", "/", "f", "o", "o">>,
                 <<"/", "m", "e", "d", "i", "a", "/", "M", "o", "v", "i", "e", "s", "/", "C", "a", "r", "t", "o", "o", "n", "s">>, <<"/", "d", "a", "t", "a", "/", "F", "o", "o">>,
                 PathExtras2}

\* self.libraries from the targets (plex/library.py:64)
as_libraries(targets) ==
    [i \in DOMAIN targets |-> Library(targets[i].id, targets[i].name, targets[i].path)]

\* library_utils.py:19-31 _map_path_core: bash is asked to source
\* src/path_mapping.sh, a file the sources do not hold, so it fails and the
\* return code is not 0
_map_path_core(path) == [returncode |-> 1, stdout |-> <<>>]

\* library_utils.py:25-41 map_path: the output of the script when it ran, the
\* path itself otherwise
map_path(path) ==
    IF _map_path_core(path).returncode = 0 THEN _map_path_core(path).stdout ELSE path

RECURSIVE replace_double_slash(_)
\* str.replace('//', '/'): the pairs are replaced from the left, once
replace_double_slash(s) ==
    IF Len(s) < 2 THEN s
    ELSE IF s[1] = Slash /\ s[2] = Slash
    THEN <<Slash>> \o replace_double_slash(SubSeq(s, 3, Len(s)))
    ELSE <<s[1]>> \o replace_double_slash(Tail(s))

\* library_utils.py:170-172: the normalize_path in force in library_utils (it
\* replaces the definition of :43-45 when the module is loaded)
library_utils_normalize_path(path) == replace_double_slash(rstrip_slashes(path))

\* library_utils.py:73-80: the media type the path's keywords suggest
target_type(mapped_target_path) ==
    LET p == lower(mapped_target_path)
    IN IF contains(p, <<"/", "u97f3", "u4e50", "/">>) \/ contains(p, <<"m", "u", "s", "i", "c">>) THEN "music"
       ELSE IF contains(p, <<"/", "u7535", "u5f71", "/">>) \/ contains(p, <<"m", "o", "v", "i", "e">>) THEN "movie"
       ELSE IF contains(p, <<"/", "u7535", "u89c6", "u5267", "/">>) \/ contains(p, <<"s", "h", "o", "w">>) THEN "show"
       ELSE "unknown"

\* best_match = "" and best_depth = 0 (library_utils.py:67-68)
NoMatch == [match |-> <<>>, depth |-> 0]

RECURSIVE match_normalized_libs(_, _, _, _, _)
\* library_utils.py:121-136 and :149-156: "for lib in normalized_libs" for one
\* current path; any_type is true in the second pass, which ignores the type
match_normalized_libs(libs, norm_current, wanted_type, any_type, best) ==
    IF libs = <<>> THEN best
    ELSE LET lib == Head(libs)
             lib_path == library_utils_normalize_path(map_path(lib.path))
             lib_depth == Len(split_slash(lib_path))
             type_ok == any_type \/ lib.type = wanted_type \/ wanted_type = "unknown"
             path_ok == \/ norm_current = lib_path
                        \/ startswith(norm_current, lib_path \o <<Slash>>)
             taken == IF type_ok /\ path_ok /\ lib_depth > best.depth
                      THEN [match |-> <<lib.id, lib_path>>, depth |-> lib_depth]
                      ELSE best
         IN match_normalized_libs(Tail(libs), norm_current, wanted_type, any_type, taken)

RECURSIVE walk_up(_, _, _, _)
\* library_utils.py:116-140 and :143-162: "while current_path and
\* current_path != '/'", from the path up to its ancestors until a library
\* matches
walk_up(current_path, libs, wanted_type, any_type) ==
    IF current_path = <<>> \/ current_path = <<Slash>> THEN NoMatch
    ELSE LET best == match_normalized_libs(libs,
                                           library_utils_normalize_path(current_path),
                                           wanted_type, any_type, NoMatch)
         IN IF best.match # <<>> THEN best
            ELSE walk_up(dirname(current_path), libs, wanted_type, any_type)

\* library_utils.py:62-168: the pair (id, path) of "id|path", <<>> for ""
library_utils_find_deepest_matching_library(target_path, libs) ==
    LET mapped_target_path == map_path(target_path)
        typed == walk_up(mapped_target_path, libs, target_type(mapped_target_path), FALSE)
    IN IF typed.match # <<>> THEN typed.match
       ELSE walk_up(mapped_target_path, libs, "unknown", TRUE).match

ResolveInit ==
    /\ rs_path \in ResolvePaths
    /\ rs_targets \in TargetLists
    /\ rs_called = {}
    /\ rs_match = NoLibrary
    /\ rs_utils_match = <<>>

\* plex/library.py:79-197: the resolver of the daemon is called
ResolverMatch ==
    /\ "library" \notin rs_called
    /\ rs_called' = rs_called \cup {"library"}
    /\ rs_match' = find_deepest_matching_library(rs_path, as_libraries(rs_targets))
    /\ UNCHANGED <<rs_path, rs_targets, rs_utils_match>>
    /\ UNCHANGED not_resolve_vars

\* library_utils.py:62-168: the resolver of library_utils is called
LibraryUtilsMatch ==
    /\ "library_utils" \notin rs_called
    /\ rs_called' = rs_called \cup {"library_utils"}
    /\ rs_utils_match' = library_utils_find_deepest_matching_library(rs_path, rs_targets)
    /\ UNCHANGED <<rs_path, rs_targets, rs_match>>
    /\ UNCHANGED not_resolve_vars

ResolveNext ==
    \/ ResolverMatch
    \/ LibraryUtilsMatch

\* the resolvers while another component is explored
ResolveIdle ==
    /\ rs_path = <<>>
    /\ rs_targets = <<>>
    /\ rs_called = {}
    /\ rs_match = NoLibrary
    /\ rs_utils_match = <<>>

----------------------------------------------------------------------------
(* SpecClean: utils/snapshot.py SnapshotManager.clean_old_snapshots, as    *)
(* main.py calls it at the start of every cycle                            *)

\* utils/snapshot.py:426 the seconds of a day, 24 * 60 * 60
seconds_per_day == 86400

\* main.py:214 the values of SNAPSHOT_RETENTION_DAYS explored
MaxAgeDaysInputs == {0, 1, 2}

\* main.py:215 the values of MAX_SNAPSHOTS explored
MaxCountInputs == {0, 1, 2, 3}

\* utils/snapshot.py:425 time.time() at the call
clean_time == 2 * seconds_per_day + 1

\* the modification times explored: the ages 0, one day, one day and a
\* second, two days, two days and a second
MtimeInputs == {clean_time, clean_time - seconds_per_day,
                clean_time - seconds_per_day - 1,
                clean_time - 2 * seconds_per_day,
                clean_time - 2 * seconds_per_day - 1}

\* an entry of the directory that does not exist
NoEntry == -1

\* the names explored in self.snapshot_dir: three records of
\* utils/snapshot.py:249, a temporary file of utils/snapshot.py:112 and a
\* record of plex/library.py:696
SnapshotDirNames ==
    <<<<"s", "n", "a", "p", "s", "h", "o", "t", "_", "a", ".", "j", "s", "o", "n">>,
      <<"s", "n", "a", "p", "s", "h", "o", "t", "_", "b", ".", "j", "s", "o", "n">>,
      <<"s", "n", "a", "p", "s", "h", "o", "t", "_", "c", ".", "j", "s", "o", "n">>,
      <<"t", "e", "m", "p", "_", "a", ".", "s", "n", "a", "p", "s", "h", "o", "t">>,
      <<"l", "i", "b", "r", "a", "r", "y", "_", "1", "_", "f", "i", "l", "e", "s", ".", "j", "s", "o", "n">>>>

\* the entries of SnapshotDirNames that are records of scans
ScanRecordEntries == 1..3

\* os.path.exists(self.snapshot_dir) is false
NoDirectory == <<>>

\* str.endswith
endswith(s, suffix) ==
    Len(suffix) <= Len(s) /\ SubSeq(s, Len(s) - Len(suffix) + 1, Len(s)) = suffix

\* utils/snapshot.py:412 the names clean_old_snapshots looks at
is_snapshot_name(filename) ==
    /\ startswith(filename, <<"s", "n", "a", "p", "s", "h", "o", "t", "_">>)
    /\ endswith(filename, <<".", "j", "s", "o", "n">>)

\* utils/snapshot.py:421 the place of entry f in the list sorted so far:
\* list.sort is stable, also with reverse=True
RECURSIVE insert_newest_first(_, _, _)
insert_newest_first(f, sorted_files, mtime_of) ==
    IF sorted_files = <<>> THEN <<f>>
    ELSE IF mtime_of[Head(sorted_files)] > mtime_of[f]
         THEN <<Head(sorted_files)>> \o insert_newest_first(f, Tail(sorted_files), mtime_of)
         ELSE <<f>> \o sorted_files

\* utils/snapshot.py:421 snapshot_files.sort(key=lambda x: x[1], reverse=True)
RECURSIVE sort_newest_first(_, _)
sort_newest_first(files, mtime_of) ==
    IF files = <<>> THEN <<>>
    ELSE insert_newest_first(Head(files), sort_newest_first(Tail(files), mtime_of), mtime_of)

\* utils/snapshot.py:410-418 the entries of the directory that
\* clean_old_snapshots collects: the files named like a record of a scan
snapshot_files(entries) ==
    {i \in DOMAIN entries : entries[i] # NoEntry /\ is_snapshot_name(SnapshotDirNames[i])}

exceeds_max_age_mutant(mtime, max_age_days) ==
    clean_time - mtime >= max_age_days * seconds_per_day

\* utils/snapshot.py:426, 434 current_time - mtime > max_age_seconds
exceeds_max_age(mtime, max_age_days) ==
    clean_time - mtime > max_age_days * seconds_per_day

\* utils/snapshot.py:423-438 the files to delete: those after the first
\* max_count of the sorted list, and those of the first max_count that are
\* older than max_age_days
files_to_delete(sorted_files, mtime_of, max_age_days, max_count) ==
    {sorted_files[i] : i \in (max_count + 1)..Len(sorted_files)}
    \cup {sorted_files[i] : i \in {j \in 1..Min(max_count, Len(sorted_files)) :
                                      exceeds_max_age(mtime_of[sorted_files[j]], max_age_days)}}

\* no call of clean_old_snapshots so far
NoClean == [called |-> FALSE]

CleanInit ==
    /\ cl_dir \in {NoDirectory} \cup
                  {d \in [1..Len(SnapshotDirNames) -> MtimeInputs \cup {NoEntry}] :
                      \A i \in 1..Len(SnapshotDirNames) \ ScanRecordEntries : d[i] = clean_time}
    /\ cl_call = NoClean
    /\ cl_result = [success |-> FALSE, error |-> "not_run"]

\* utils/snapshot.py:394-465 clean_old_snapshots(max_age_days, max_count) when
\* the directory exists; os.listdir gives the files collected in the order
\* listing, os.remove raises for the files of failing
CleanOldSnapshots ==
    /\ cl_dir # NoDirectory
    /\ \E max_age_days \in MaxAgeDaysInputs, max_count \in MaxCountInputs :
       \E listing \in Orders(snapshot_files(cl_dir)) :
         LET sorted_files == sort_newest_first(listing, cl_dir)
             doomed == files_to_delete(sorted_files, cl_dir, max_age_days, max_count)
         IN \E failing \in {F \in SUBSET doomed : Cardinality(F) <= MaxRemoveFailures} :
              LET deleted == doomed \ failing
              IN /\ cl_dir' = [i \in DOMAIN cl_dir |-> IF i \in deleted THEN NoEntry ELSE cl_dir[i]]
                 /\ cl_call' = [called |-> TRUE, max_age_days |-> max_age_days,
                                max_count |-> max_count, before |-> cl_dir,
                                sorted_files |-> sorted_files, failing |-> failing]
                 /\ cl_result' = [success |-> TRUE,
                                  total_snapshots |-> Len(sorted_files),
                                  deleted_count |-> Cardinality(deleted),
                                  failed_count |-> Cardinality(failing),
                                  remaining_count |-> Len(sorted_files) - Cardinality(deleted)]
    /\ UNCHANGED not_clean_vars

\* utils/snapshot.py:405-407 the directory does not exist
CleanMissingDirectory ==
    /\ cl_dir = NoDirectory
    /\ cl_call = NoClean
    /\ cl_call' = [called |-> TRUE, max_age_days |-> 7, max_count |-> 10, before |-> cl_dir,
                   sorted_files |-> <<>>, failing |-> {}]
    /\ cl_result' = [success |-> FALSE, error |-> "directory_not_exists"]
    /\ UNCHANGED cl_dir
    /\ UNCHANGED not_clean_vars

CleanNext ==
    \/ CleanOldSnapshots
    \/ CleanMissingDirectory

\* clean_old_snapshots at rest
CleanIdle ==
    /\ cl_dir = NoDirectory
    /\ cl_call = NoClean
    /\ cl_result = [success |-> FALSE, error |-> "not_run"]

----------------------------------------------------------------------------
(* SpecRefresh: plex/library.py update_library_with_files from the         *)
(* comparison of the checksums on, _trigger_individual_file_scans and      *)
(* plex/api.py scan_library / _make_request, one HTTP request per step,    *)
(* for one WebDAV directory whose files do not change                      *)

\* calls of update_library_with_files explored, and calls of scan_library
\* explored for one directory
MaxDispatches == 2

MaxScanLibraryCalls == 5

\* plex/api.py:43 MAX_RETRIES
api_max_retries == 3

\* plex/api.py:44 RETRY_DELAY, in seconds
retry_delay == 2

\* plex/library.py:789 SCAN_BATCH_SIZE while a WebDAV path is scanned
webdav_batch_size == 5

\* the files of the directory that exist and reach the size threshold:
\* media files in three subdirectories and a subtitle file
FileA == DirWebDAV \o <<"/", "s", "/", "a", ".", "m", "k", "v">>

FileB == DirWebDAV \o <<"/", "s", "/", "b", ".", "m", "k", "v">>

FileC == DirWebDAV \o <<"/", "s", "/", "c", ".", "m", "k", "v">>

FileD == DirWebDAV \o <<"/", "t", "/", "d", ".", "m", "k", "v">>

FileE == DirWebDAV \o <<"/", "t", "/", "e", ".", "m", "k", "v">>

FileF == DirWebDAV \o <<"/", "u", "/", "f", ".", "m", "k", "v">>

FileG == DirWebDAV \o <<"/", "t", "/", "g", ".", "s", "r", "t">>

\* the sets of valid files explored: two directories of one media file
\* each, and seven files in three directories
RefreshFileSets == {{FileA, FileD}, {FileA, FileB, FileC, FileD, FileE, FileF, FileG}}

RefreshFiles == UNION RefreshFileSets

\* os.path.dirname, for the files explored
refresh_dirname == [f \in RefreshFiles |-> dirname(f)]

\* plex/library.py:965 'webdav' in fp.lower()
contains_webdav == [f \in RefreshFiles |-> contains(lower(f), <<"w", "e", "b", "d", "a", "v">>)]

\* plex/library.py:982-983 the extension is an auxiliary one
has_auxiliary_ext == [f \in RefreshFiles |-> splitext_ext(lower(f)) \in auxiliary_extensions]

\* plex/library.py:928-945, for the files explored
refresh_comparison_path == [f \in RefreshFiles |-> _normalize_path_for_comparison(f)]

\* what Plex reports for a file it holds (its path in lower case), as
\* plex/library.py:722 normalizes it
plex_comparison_path == [f \in RefreshFiles |-> _normalize_path_for_comparison(lower(f))]

\* plex/library.py:965-992 the files _trigger_individual_file_scans scans
main_media_files(file_paths) ==
    IF \E fp \in file_paths : contains_webdav[fp]
    THEN {f \in file_paths : ~has_auxiliary_ext[f]}
    ELSE file_paths

\* plex/library.py:1012 the directories of the files
directories_of(file_paths) == {refresh_dirname[f] : f \in file_paths}

\* plex/library.py:1013 len(files_in_dir) for each directory
files_in_dir_count(file_paths) ==
    [d \in directories_of(file_paths) |->
        Cardinality({f \in file_paths : refresh_dirname[f] = d})]

RECURSIVE group_batches(_, _, _, _, _)
\* plex/library.py:1139-1152 the directories in batches of at most
\* batch_size files, a directory never split
group_batches(directories_list, count_of, batch_size, current_batch, current_file_count) ==
    IF directories_list = <<>>
    THEN IF current_batch # <<>> THEN <<current_batch>> ELSE <<>>
    ELSE LET dir_path == Head(directories_list)
         IN IF current_file_count + count_of[dir_path] > batch_size /\ current_batch # <<>>
            THEN <<current_batch>>
                   \o group_batches(Tail(directories_list), count_of, batch_size,
                                    <<dir_path>>, count_of[dir_path])
            ELSE group_batches(Tail(directories_list), count_of, batch_size,
                               Append(current_batch, dir_path),
                               current_file_count + count_of[dir_path])

\* plex/library.py:1135-1152 dir_batches
dir_batches(directories_list, file_paths, batch_size) ==
    IF Cardinality(file_paths) <= 5 THEN <<directories_list>>
    ELSE group_batches(directories_list, files_in_dir_count(file_paths), batch_size, <<>>, 0)

RECURSIVE drop_empty_batches(_)
\* plex/library.py:1178, 1185 the two loops pass over a batch without directories
drop_empty_batches(batches) ==
    IF batches = <<>> THEN <<>>
    ELSE IF Head(batches) = <<>> THEN drop_empty_batches(Tail(batches))
    ELSE batches

batches_after_mutant(batches, scan_result) ==
    IF scan_result THEN drop_empty_batches(<<Tail(Head(batches))>> \o Tail(batches)) ELSE <<>>

\* plex/library.py:1178-1222 the batches still to process once the refresh
\* call of the first directory has returned scan_result
batches_after(batches, scan_result) ==
    drop_empty_batches(<<Tail(Head(batches))>> \o Tail(batches))

\* plex/api.py:137 delay = self.retry_delay * (2 ** (retries - 1))
backoff_delay(retries) == retry_delay * 2 ^ (retries - 1)

\* plex/api.py:129-134 the request is given up
gives_up(retries) == retries > api_max_retries

\* what the HTTP request of plex/api.py:90-100 meets: a response Plex sends
\* for an accepted refresh, a requests.exceptions.RequestException
\* (:129), or a response _make_request turns into an error (:125-127)
RequestOutcomes == {"accepted", "request_exception", "error_response"}

\* plex/library.py:850-854 retry_count after a failed scan_library of the
\* loop of a full scan
retry_count_after(count) == IF count < max_retries - 1 THEN count + 1 ELSE count

\* plex/library.py:846 the condition of the loop of a full scan
full_scan_goes_on(count, scan_result) == count < max_retries /\ ~scan_result

\* no call of update_library_with_files has ended yet; of a call that has:
\* how it ended (mode), the branch it was in, the value returned, the
\* refresh calls that returned (log, each with the number of batches not
\* yet finished when it was made), the directories and files to scan
NoDispatch == [mode |-> "none", branch |-> "none", result |-> 0, log |-> <<>>,
               directories |-> {}, files_to_scan |-> {}]

RefreshInit ==
    /\ rf_pc = "idle"
    /\ rf_files \in RefreshFileSets
    /\ rf_count \in {0, 8, 9}
    /\ rf_snapshot \in {NoSnapshot,
                        files_snapshot({FileA}, _calculate_files_checksum({FileA}))}
    /\ rf_mode = "none"
    /\ rf_files_to_scan = {}
    /\ rf_batches = <<>>
    /\ rf_retries = 0
    /\ rf_delays = <<>>
    /\ rf_retry_count = 0
    /\ rf_scan_calls = 0
    /\ rf_log = <<>>
    /\ rf_success_count = 0
    /\ rf_last = NoDispatch
    /\ rf_prev = NoDispatch
    /\ rf_dispatches = 0

\* the call returns result
RefreshReturn(mode, result, log, files_to_scan) ==
    /\ rf_pc' = "idle"
    /\ rf_mode' = "none"
    /\ rf_files_to_scan' = {}
    /\ rf_batches' = <<>>
    /\ rf_retries' = 0
    /\ rf_delays' = <<>>
    /\ rf_retry_count' = 0
    /\ rf_scan_calls' = 0
    /\ rf_log' = <<>>
    /\ rf_success_count' = 0
    /\ rf_last' = [mode |-> mode, branch |-> rf_mode, result |-> result, log |-> log,
                   directories |-> directories_of(main_media_files(files_to_scan)),
                   files_to_scan |-> files_to_scan]
    /\ rf_prev' = rf_last

\* plex/library.py:778-803, 947-1177 the files to scan are handed to
\* _trigger_individual_file_scans, which groups them by directory; the
\* set of directories is walked in the order directories_list
RefreshTrigger(files_to_scan, directories_list) ==
    LET unique_paths == main_media_files(files_to_scan)
        batches == drop_empty_batches(dir_batches(directories_list, unique_paths,
                                                  webdav_batch_size))
    IN IF files_to_scan = {} THEN RefreshReturn("nothing_new", 0, <<>>, {})
       ELSE IF batches = <<>> THEN RefreshReturn("incremental", 0, <<>>, files_to_scan)
       ELSE /\ rf_pc' = "scanning"
            /\ rf_mode' = "incremental"
            /\ rf_files_to_scan' = files_to_scan
            /\ rf_batches' = batches
            /\ rf_retries' = 0
            /\ rf_delays' = <<>>
            /\ rf_retry_count' = 0
            /\ rf_scan_calls' = 1
            /\ rf_log' = <<>>
            /\ rf_success_count' = 0
            /\ UNCHANGED <<rf_last, rf_prev>>

\* plex/library.py:672-846 update_library_with_files for the directory, from
\* the count of the calls for a WebDAV path on, up to its return or to the
\* first refresh call.  What get_library_files gives is chosen here.
RefreshDispatch ==
    /\ rf_pc = "idle"
    /\ rf_dispatches < MaxDispatches
    /\ rf_dispatches' = rf_dispatches + 1
    /\ rf_count' = rf_count + 1
    /\ UNCHANGED rf_files
    /\ LET use_incremental_update == (rf_count + 1) % 10 # 0
           current_files_checksum == _calculate_files_checksum(rf_files)
           unchanged == /\ rf_snapshot.exists /\ rf_snapshot.checksum # <<>>
                        /\ rf_snapshot.checksum = current_files_checksum
           not_among(known) == {f \in rf_files : refresh_comparison_path[f] \notin known}
       IN IF use_incremental_update /\ ~rf_snapshot.exists
          THEN \* :705-741
               /\ rf_snapshot' = files_snapshot(rf_files, current_files_checksum)
               /\ \E plex_error \in BOOLEAN, plex_files \in {{}, {FileA}, rf_files} :
                  \E directories_list \in
                        Orders(directories_of(main_media_files(
                            IF plex_error THEN rf_files
                            ELSE not_among({plex_comparison_path[g] : g \in plex_files})))) :
                     RefreshTrigger(IF plex_error THEN rf_files
                                    ELSE not_among({plex_comparison_path[g] : g \in plex_files}),
                                    directories_list)
          ELSE IF unchanged
          THEN \* :754-757 and :825-828
               /\ UNCHANGED rf_snapshot
               /\ RefreshReturn("unchanged", 0, <<>>, {})
          ELSE IF use_incremental_update
          THEN \* :758-772
               /\ rf_snapshot' = files_snapshot(rf_files, current_files_checksum)
               /\ \E directories_list \in
                        Orders(directories_of(main_media_files(
                            not_among({refresh_comparison_path[g] : g \in rf_snapshot.files})))) :
                     RefreshTrigger(not_among({refresh_comparison_path[g] :
                                                  g \in rf_snapshot.files}),
                                    directories_list)
          ELSE \* :829-846 a full scan of the directory begins; the snapshot
               \* is left as it is (:832)
               /\ UNCHANGED rf_snapshot
               /\ rf_pc' = "full_scan"
               /\ rf_mode' = "full"
               /\ rf_files_to_scan' = rf_files
               /\ rf_batches' = <<<<DirWebDAV>>>>
               /\ rf_retries' = 0
               /\ rf_delays' = <<>>
               /\ rf_retry_count' = 0
               /\ rf_scan_calls' = 1
               /\ rf_log' = <<>>
               /\ rf_success_count' = 0
               /\ UNCHANGED <<rf_last, rf_prev>>
    /\ UNCHANGED not_refresh_vars

\* plex/library.py:1188-1246 scan_library has returned scan_result for the
\* first directory of the batches: its files are counted when the call was
\* accepted, then comes the next directory, or the return
AfterScanLibrary(scan_result) ==
    LET dir_path == Head(Head(rf_batches))
        unique_paths == main_media_files(rf_files_to_scan)
        counted == IF scan_result THEN files_in_dir_count(unique_paths)[dir_path] ELSE 0
        log == Append(rf_log, [dir |-> dir_path, accepted |-> scan_result,
                               batches_left |-> Len(rf_batches)])
        rest == batches_after(rf_batches, scan_result)
    IN IF rest = <<>>
       THEN RefreshReturn("incremental", rf_success_count + counted, log, rf_files_to_scan)
       ELSE /\ rf_batches' = rest
            /\ rf_log' = log
            /\ rf_success_count' = rf_success_count + counted
            /\ rf_retries' = 0
            /\ rf_delays' = <<>>
            /\ rf_scan_calls' = 1
            /\ UNCHANGED <<rf_pc, rf_mode, rf_files_to_scan, rf_retry_count, rf_last, rf_prev>>

\* plex/library.py:846-870 scan_library has returned scan_result in the loop
\* of a full scan
AfterFullScanLibrary(scan_result) ==
    LET log == Append(rf_log, [dir |-> DirWebDAV, accepted |-> scan_result,
                               batches_left |-> Len(rf_batches)])
        count == IF scan_result THEN rf_retry_count ELSE retry_count_after(rf_retry_count)
    IN IF full_scan_goes_on(count, scan_result)
       THEN /\ rf_scan_calls < MaxScanLibraryCalls
            /\ rf_scan_calls' = rf_scan_calls + 1
            /\ rf_retry_count' = count
            /\ rf_log' = log
            /\ rf_retries' = 0
            /\ rf_delays' = <<>>
            /\ UNCHANGED <<rf_pc, rf_mode, rf_files_to_scan, rf_batches, rf_success_count,
                           rf_last, rf_prev>>
       ELSE RefreshReturn("full", IF scan_result THEN Cardinality(rf_files_to_scan) ELSE 0,
                          log, rf_files_to_scan)

\* plex/api.py:88-141 and 228-262: one HTTP request of _make_request inside
\* scan_library; when _make_request returns, scan_library returns to
\* plex/library.py and the caller goes on
Request(outcome) ==
    /\ rf_pc \in {"scanning", "full_scan"}
    /\ IF outcome = "request_exception" /\ ~gives_up(rf_retries + 1)
       THEN \* :130-141
            /\ rf_retries' = rf_retries + 1
            /\ rf_delays' = Append(rf_delays, backoff_delay(rf_retries + 1))
            /\ UNCHANGED <<rf_pc, rf_mode, rf_files_to_scan, rf_batches, rf_retry_count,
                           rf_scan_calls, rf_log, rf_success_count, rf_last, rf_prev>>
       ELSE IF rf_pc = "scanning" THEN AfterScanLibrary(outcome = "accepted")
            ELSE AfterFullScanLibrary(outcome = "accepted")
    /\ UNCHANGED <<rf_files, rf_count, rf_snapshot, rf_dispatches>>
    /\ UNCHANGED not_refresh_vars

\* the process ends while a call is under way: what it held in memory is
\* gone, the files of the snapshot directory stay
RefreshInterrupted ==
    /\ rf_pc \in {"scanning", "full_scan"}
    /\ rf_count' = 0
    /\ RefreshReturn("interrupted", 0, rf_log, rf_files_to_scan)
    /\ UNCHANGED <<rf_files, rf_snapshot, rf_dispatches>>
    /\ UNCHANGED not_refresh_vars

RefreshNext ==
    \/ RefreshDispatch
    \/ \E outcome \in RequestOutcomes : Request(outcome)
    \/ RefreshInterrupted

\* the refresh calls at rest
RefreshIdle ==
    /\ rf_pc = "idle"
    /\ rf_files = {}
    /\ rf_count = 0
    /\ rf_snapshot = NoSnapshot
    /\ rf_mode = "none"
    /\ rf_files_to_scan = {}
    /\ rf_batches = <<>>
    /\ rf_retries = 0
    /\ rf_delays = <<>>
    /\ rf_retry_count = 0
    /\ rf_scan_calls = 0
    /\ rf_log = <<>>
    /\ rf_success_count = 0
    /\ rf_last = NoDispatch
    /\ rf_prev = NoDispatch
    /\ rf_dispatches = 0

----------------------------------------------------------------------------
(* SpecPool: snapshot_utils.py _generate_snapshot_core, the batch loop of   *)
(* the parallel scan (lines 818-1012) and the threads of its pools running  *)
(* process_file (lines 446-520).  "success_count += 1" and                  *)
(* "error_count += 1" read the counter and write it back in two steps of    *)
(* the thread; no lock is held (there is none in the function).             *)
(* SnapshotManager calls the scanner with scan_delay = 0.1 and              *)
(* max_files = 0 (utils/snapshot.py:133-142).                               *)
(*                                                                         *)
(* The files of the model pass is_auxiliary_file and the size filter; the   *)
(* other files of a batch of batch_size paths change skipped_auxiliary or   *)
(* skipped_small only and are left out.  File i is the i-th path of         *)
(* temp_file_paths and also the i-th path in the order of the bytes.        *)

\* calls of process_file running at the same time
MaxRunning == 2

Max(a, b) == IF a > b THEN a ELSE b

\* snapshot_utils.py:358-361
min_workers == 5

error_threshold == 3

recovery_threshold == 10

\* snapshot_utils.py:134 scan_delay = 0.1 as SnapshotManager passes it, in
\* units of 0.1 ms
pool_scan_delay == 1000

\* SMB_MAX_WORKERS as configured (snapshot_utils.py:344): below the range,
\* the default, above the range
SmbMaxWorkersInputs == {3, 5, 12}

\* snapshot_utils.py:346-348: max(5, min(smb_max_workers, 10))
smb_max_workers(configured) == Max(5, Min(configured, 10))

\* snapshot_utils.py:354: max(5, min(smb_max_workers // 2, 10))
initial_current_workers(max_workers) == Max(5, Min(max_workers \div 2, 10))

\* the directories of the model: a local directory, a directory whose first
\* files are those of a disc image (has_disc_files, :709-752), and a
\* directory under "/vol02/CloudDrive/WebDAV" when PROD_PATH_PREFIX and
\* TEST_PATH_PREFIX name other mounts (with the defaults the log line of
\* :284 raises before the core starts)
DirectoryKinds == {"local", "disc", "webdav"}

\* snapshot_utils.py:359: the paths of a batch
batch_size == 500

\* snapshot_utils.py:625: under "/vol02/CloudDrive/WebDAV" the collection of
\* the paths assigns batch_size again, min(5, dir_queue.qsize()), and the
\* batch loop runs with the last value
collector_batch_limit == 5

\* the largest batch of a directory
largest_batch(kind) == IF kind = "webdav" THEN collector_batch_limit ELSE batch_size

\* the number of files of each batch of temp_file_paths that reach
\* os.path.getsize
PoolBatchings == { <<6>>, <<3, 3>>, <<10, 2>> }

\* the files whose os.path.getsize raises "Connection timed out" in a scan:
\* none, one, three in a row, five in a row
OutageInputs == { {}, {2}, {1, 2, 3}, {1, 2, 3, 4, 5} }

RECURSIVE batch_start(_, _)
\* the number of files of the batches before batch i
batch_start(batches, i) ==
    IF i <= 1 THEN 0 ELSE batches[i - 1] + batch_start(batches, i - 1)

\* snapshot_utils.py:855 temp_file_paths[i:i+batch_size], as file numbers
batch_files(batches, i) ==
    [k \in 1..batches[i] |-> batch_start(batches, i) + k]

\* snapshot_utils.py:1077 sorted(file_paths) for the files of the model
RECURSIVE sorted_paths(_)
sorted_paths(files) ==
    IF files = {} THEN <<>>
    ELSE LET first == CHOOSE f \in files : \A g \in files : f <= g
         IN <<first>> \o sorted_paths(files \ {first})

\* how fast the scan is when the loop looks at it (:876-882, :904, :964):
\* processing_speed above the high threshold, below the low threshold after
\* the time the branch asks for, or between
Speeds == {"fast", "steady", "slow"}

\* processing_speed = len(file_paths) / elapsed_time is 0 with no file
speed_possible(speed, file_paths) == speed = "fast" => file_paths # {}

\* snapshot_utils.py:332-362 and 689-691: the variables of the core the loop
\* and the workers share, at the start of the loop; new_workers is not bound
Unbound == 0

pool_locals(kind) ==
    [file_paths |-> {}, success_count |-> 0, error_count |-> 0,
     current_workers |-> min_workers,
     adaptive_batch_delay |-> IF kind = "webdav"
                              THEN Max((pool_scan_delay * 3) \div 2, pool_scan_delay)
                              ELSE pool_scan_delay,
     is_webdav_path |-> FALSE, new_workers |-> Unbound]

\* snapshot_utils.py:818-849: the size of the first pool
first_pool_size(is_docker, kind, max_workers, current_workers, n_files) ==
    IF is_docker
    THEN IF kind = "disc" THEN Min(max_workers, current_workers + 4)
         ELSE Min(max_workers, current_workers + 2)
    ELSE IF kind = "webdav" /\ n_files < 100 THEN Min(current_workers, 2)
         ELSE current_workers

\* snapshot_utils.py:886-901: the step and the threshold of a growth in
\* Docker
docker_thread_boost(kind, on_webdav) ==
    IF kind = "disc" THEN 3 ELSE IF on_webdav THEN 4 ELSE 2

success_threshold(kind, on_webdav) ==
    IF kind = "disc" \/ on_webdav THEN recovery_threshold \div 3
    ELSE recovery_threshold \div 2

\* snapshot_utils.py:906-909: the size after a growth in Docker; with
\* processing_speed above the high threshold it is above half of it too
docker_new_workers(kind, on_webdav, max_workers, current_workers) ==
    LET new_workers == Min(max_workers,
                           current_workers + docker_thread_boost(kind, on_webdav))
    IN IF kind = "disc" /\ new_workers < max_workers
       THEN Min(max_workers, new_workers + 1)
       ELSE new_workers

\* snapshot_utils.py:952-960: the error threshold of the shrink in Docker
docker_error_threshold(on_webdav) ==
    IF on_webdav THEN error_threshold ELSE error_threshold * 2

\* snapshot_utils.py:492-495, 510-517: the delay after a connection error at
\* or past the threshold; on_webdav when the file lies under PROD_PATH_PREFIX
\* or TEST_PATH_PREFIX, which are the two WebDAV mounts unless configured
raised_delay(adaptive_batch_delay, on_webdav) ==
    IF on_webdav
    THEN Max((pool_scan_delay * 5) \div 2, (adaptive_batch_delay * 18) \div 10)
    ELSE Max(pool_scan_delay * 2, (adaptive_batch_delay * 3) \div 2)

\* snapshot_utils.py:931-934: the delay after the growth check outside
\* Docker: speed_factor is 1 up to the high threshold, here 2 above it
lowered_delay(adaptive_batch_delay, speed) ==
    Max(pool_scan_delay,
        IF speed = "fast" THEN (adaptive_batch_delay * 10) \div 13
        ELSE (adaptive_batch_delay * 10) \div 12)

\* snapshot_utils.py:996-1000: the delay after the pool was replaced
replaced_delay(adaptive_batch_delay, on_webdav) ==
    Min(IF on_webdav THEN (adaptive_batch_delay * 12) \div 10
        ELSE (adaptive_batch_delay * 3) \div 2,
        pool_scan_delay * 3)

NoPoolEnv == [is_docker |-> TRUE, kind |-> "local", max_workers |-> min_workers,
              batches |-> <<>>, outage |-> {}]

NoPass == [error_count |-> 0, shrink |-> FALSE, grow |-> FALSE, passes |-> 0]

PoolInit ==
    /\ wp_pc = "idle"
    /\ wp_env = NoPoolEnv
    /\ wp_batch = 1
    /\ wp_executors = <<>>
    /\ wp_running = {}
    /\ wp_locals = pool_locals("local")
    /\ wp_seen = NoPass
    /\ wp_output = <<>>
    /\ wp_result = "none"

\* the number of files of the scan
n_files(batches) == batch_start(batches, Len(batches) + 1)

\* snapshot_utils.py:344-362 and 818-851: the loop is reached; the first pool
\* is made
StartPool(is_docker, kind, configured, batches, outage) ==
    /\ wp_pc = "idle"
    /\ \A i \in 1..Len(batches) : batches[i] <= largest_batch(kind)
    /\ LET max_workers == smb_max_workers(configured)
           size == first_pool_size(is_docker, kind, max_workers,
                                   initial_current_workers(max_workers),
                                   n_files(batches))
       IN /\ wp_env' = [is_docker |-> is_docker, kind |-> kind,
                        max_workers |-> max_workers, batches |-> batches,
                        outage |-> outage]
          /\ wp_executors' = << [size |-> size, queue |-> <<>>, shutdown |-> FALSE] >>
          /\ wp_locals' = [pool_locals(kind) EXCEPT
                              !.current_workers = size,
                              !.is_webdav_path = ~is_docker /\ kind = "webdav"]
    /\ wp_pc' = "submit"
    /\ UNCHANGED <<wp_batch, wp_running, wp_seen, wp_output, wp_result>>
    /\ UNCHANGED not_pool_vars

\* snapshot_utils.py:854-860: the next batch is handed to the newest pool
SubmitBatch ==
    /\ wp_pc = "submit"
    /\ LET newest == Len(wp_executors)
       IN wp_executors' = [wp_executors EXCEPT
              ![newest].queue = @ \o batch_files(wp_env.batches, wp_batch)]
    /\ wp_batch' = wp_batch + 1
    /\ wp_pc' = "tune"
    /\ UNCHANGED <<wp_env, wp_running, wp_locals, wp_seen, wp_output, wp_result>>
    /\ UNCHANGED not_pool_vars

\* executor.shutdown(wait=False) and a new ThreadPoolExecutor: the calls the
\* old pool holds go on in its threads
replace_executor(executors, size) ==
    [executors EXCEPT ![Len(executors)].shutdown = TRUE]
        \o << [size |-> size, queue |-> <<>>, shutdown |-> FALSE] >>

\* the pass is over: the next batch, or the end of the loop
after_pass == IF wp_batch <= Len(wp_env.batches) THEN "submit" ELSE "join"

\* snapshot_utils.py:903-904 and 919-920: the growth check
pool_grows(is_docker, kind, on_webdav, max_workers, l, speed) ==
    /\ l.success_count >= (IF is_docker THEN success_threshold(kind, on_webdav)
                           ELSE recovery_threshold)
    /\ l.current_workers < max_workers
    /\ speed = "fast"

\* snapshot_utils.py:963-965 and 980-982: the shrink check
shrink_check(is_docker, on_webdav, l, speed) ==
    /\ l.error_count >= (IF is_docker THEN docker_error_threshold(on_webdav)
                         ELSE error_threshold) \/ speed = "slow"
    /\ l.current_workers > min_workers

\* snapshot_utils.py:876-1006: the rest of a pass of the loop, after the
\* batch was submitted; processing_speed is computed once (:880).
\* Growth (:884-942): in Docker the pool is replaced by a larger one when the
\* success streak and the speed allow; outside Docker the same by one worker,
\* then the delay is lowered and success_count is reset.
\* Shrink (:944-1006): :947 looks at the first paths again.  In Docker the
\* smaller size is computed and logged and nothing else is done with it.
\* Outside Docker the pool is replaced by one of new_workers threads whatever
\* the check said, the delay is raised and error_count is reset; new_workers
\* not bound is an UnboundLocalError, which ends the core with
\* -ERROR_UNKNOWN (:1462-1464)
TunePool(speed) ==
    /\ wp_pc = "tune"
    /\ speed_possible(speed, wp_locals.file_paths)
    /\ LET is_docker == wp_env.is_docker
           grows == pool_grows(is_docker, wp_env.kind, wp_locals.is_webdav_path,
                               wp_env.max_workers, wp_locals, speed)
           grown_size == IF is_docker
                         THEN docker_new_workers(wp_env.kind, wp_locals.is_webdav_path,
                                                 wp_env.max_workers,
                                                 wp_locals.current_workers)
                         ELSE Min(wp_env.max_workers, wp_locals.current_workers + 1)
           grown == IF grows
                    THEN [wp_locals EXCEPT !.new_workers = grown_size,
                                           !.current_workers = grown_size]
                    ELSE wp_locals
           after_growth == IF is_docker THEN grown
                           ELSE [grown EXCEPT
                                    !.adaptive_batch_delay = lowered_delay(@, speed),
                                    !.success_count = 0]
           executors == IF grows THEN replace_executor(wp_executors, grown_size)
                        ELSE wp_executors
           on_webdav == wp_env.kind = "webdav"
           l == [after_growth EXCEPT !.is_webdav_path = on_webdav]
           shrinks == shrink_check(is_docker, on_webdav, l, speed)
           computed == IF shrinks
                       THEN [l EXCEPT !.new_workers = Max(min_workers, l.current_workers - 1)]
                       ELSE l
       IN /\ wp_seen' = [error_count |-> l.error_count, shrink |-> shrinks,
                         grow |-> grows, passes |-> wp_seen.passes + 1]
          /\ IF is_docker
             THEN /\ wp_locals' = computed
                  /\ wp_executors' = executors
                  /\ wp_pc' = after_pass
                  /\ wp_result' = wp_result
             ELSE IF computed.new_workers = Unbound
             THEN /\ wp_locals' = computed
                  /\ wp_executors' = [executors EXCEPT ![Len(executors)].shutdown = TRUE]
                  /\ wp_pc' = "returned"
                  /\ wp_result' = "unbound_local_error"
             ELSE /\ wp_locals' = [computed EXCEPT
                        !.current_workers = computed.new_workers,
                        !.adaptive_batch_delay = replaced_delay(@, on_webdav),
                        !.error_count = 0]
                  /\ wp_executors' = replace_executor(executors, computed.new_workers)
                  /\ wp_pc' = after_pass
                  /\ wp_result' = wp_result
    /\ UNCHANGED <<wp_env, wp_batch, wp_running, wp_output>>
    /\ UNCHANGED not_pool_vars

\* the calls of process_file pool e is running
running_in(e) == {t \in wp_running : t.executor = e}

\* snapshot_utils.py:446-483 and 491-501: a thread of pool e takes the oldest
\* call of its queue and runs process_file up to the read of a counter:
\* os.path.getsize returns, the path is appended (:480) and success_count is
\* read (:483), or os.path.getsize raises a connection error and error_count
\* is read (:501)
TakeFile(e) ==
    /\ e \in 1..Len(wp_executors)
    /\ wp_executors[e].queue # <<>>
    /\ Cardinality(wp_running) < MaxRunning
    /\ Cardinality(running_in(e)) < wp_executors[e].size
    /\ LET file == Head(wp_executors[e].queue)
           raises == file \in wp_env.outage
       IN /\ wp_locals' = IF raises THEN wp_locals
                          ELSE [wp_locals EXCEPT !.file_paths = @ \cup {file}]
          /\ wp_running' = wp_running \cup
                {[executor |-> e, file |-> file, raised |-> raises,
                  loaded |-> IF raises THEN wp_locals.error_count
                             ELSE wp_locals.success_count]}
    /\ wp_executors' = [wp_executors EXCEPT ![e].queue = Tail(@)]
    /\ UNCHANGED <<wp_pc, wp_env, wp_batch, wp_seen, wp_output, wp_result>>
    /\ UNCHANGED not_pool_vars

\* snapshot_utils.py:483 and 501, "success_count += 1" and
\* "error_count += 1": what is written is the value read before, plus one
store_count(loaded, now) == loaded + 1

\* snapshot_utils.py:483-490: the success streak is written, the error streak
\* reset; the call returns
FinishSuccess(t) ==
    /\ t \in wp_running
    /\ ~t.raised
    /\ wp_locals' = [wp_locals EXCEPT
                        !.success_count = store_count(t.loaded, @),
                        !.error_count = 0]
    /\ wp_running' = wp_running \ {t}
    /\ UNCHANGED <<wp_pc, wp_env, wp_batch, wp_executors, wp_seen, wp_output, wp_result>>
    /\ UNCHANGED not_pool_vars

\* snapshot_utils.py:501-520: the error streak is written, the success streak
\* reset, and at or past error_threshold the delay is raised; the call
\* returns
FinishError(t) ==
    /\ t \in wp_running
    /\ t.raised
    /\ LET error_count == store_count(t.loaded, wp_locals.error_count)
       IN wp_locals' = [wp_locals EXCEPT
              !.error_count = error_count,
              !.success_count = 0,
              !.adaptive_batch_delay = IF error_count >= error_threshold
                                       THEN raised_delay(@, wp_env.kind = "webdav")
                                       ELSE @]
    /\ wp_running' = wp_running \ {t}
    /\ UNCHANGED <<wp_pc, wp_env, wp_batch, wp_executors, wp_seen, wp_output, wp_result>>
    /\ UNCHANGED not_pool_vars

\* snapshot_utils.py:1008-1012: the pools the end of the loop waits for: the
\* one "executor" names, unless it is shut down already
join_executor(executors) ==
    {e \in {Len(executors)} : ~executors[e].shutdown}

\* snapshot_utils.py:1008-1012: executor.shutdown(wait=True) returns when the
\* newest pool has run every call it holds
JoinExecutor ==
    /\ wp_pc = "join"
    /\ \A e \in join_executor(wp_executors) :
          wp_executors[e].queue = <<>> /\ running_in(e) = {}
    /\ wp_executors' = [e \in 1..Len(wp_executors) |->
                          [wp_executors[e] EXCEPT !.shutdown = TRUE]]
    /\ wp_pc' = "sort"
    /\ UNCHANGED <<wp_env, wp_batch, wp_running, wp_locals, wp_seen, wp_output,
                   wp_result>>
    /\ UNCHANGED not_pool_vars

\* snapshot_utils.py:1076-1461: the list is sorted and written at
\* output_file; with no file nothing is written and the core returns 0
SortAndWrite ==
    /\ wp_pc = "sort"
    /\ wp_output' = sorted_paths(wp_locals.file_paths)
    /\ wp_result' = IF wp_locals.file_paths = {} THEN "no_files" ELSE "written"
    /\ wp_pc' = "returned"
    /\ UNCHANGED <<wp_env, wp_batch, wp_executors, wp_running, wp_locals, wp_seen>>
    /\ UNCHANGED not_pool_vars

PoolNext ==
    \/ \E is_docker \in BOOLEAN, kind \in DirectoryKinds,
          configured \in SmbMaxWorkersInputs, batches \in PoolBatchings,
          outage \in OutageInputs :
          StartPool(is_docker, kind, configured, batches, outage)
    \/ SubmitBatch
    \/ \E speed \in Speeds : TunePool(speed)
    \/ \E e \in 1..Len(wp_executors) : TakeFile(e)
    \/ \E t \in wp_running : FinishSuccess(t)
    \/ \E t \in wp_running : FinishError(t)
    \/ JoinExecutor
    \/ SortAndWrite

\* the pool at rest
PoolIdle ==
    /\ wp_pc = "idle"
    /\ wp_env = NoPoolEnv
    /\ wp_batch = 1
    /\ wp_executors = <<>>
    /\ wp_running = {}
    /\ wp_locals = pool_locals("local")
    /\ wp_seen = NoPass
    /\ wp_output = <<>>
    /\ wp_result = "none"

----------------------------------------------------------------------------
(* The directories of the refresh calls: plex/library.py                   *)
(* _trigger_individual_file_scans for file lists without a WebDAV path     *)

\* directories of the model: a directory, a directory under it, one deeper
\* still, and a sibling whose name begins with the name of the first
MergeDirA == <<"/", "m", "/", "a">>

MergeDirAB == <<"/", "m", "/", "a", "/", "b">>

MergeDirABC == <<"/", "m", "/", "a", "/", "b", "/", "c">>

MergeDirAx == <<"/", "m", "/", "a", "x">>

MergeDirs == {MergeDirA, MergeDirAB, MergeDirABC, MergeDirAx}

\* at most this many directories hold files of one call
MaxMergeDirs == 3

\* plex/library.py:1009: with fewer files the directories are not merged
fast_path_limit == 50

\* plex/library.py:1001: SCAN_BATCH_SIZE, '10' when not configured
scan_batch_size == 10

\* plex/library.py:1135: up to this many files go in one batch
single_batch_limit == 5

\* plex/library.py:1114: only the directories added last are looked at
recent_directories == 20

\* the numbers of files of a directory explored: a few, and half of what
\* makes the code merge directories
FewFiles == 2

ManyFiles == fast_path_limit \div 2

\* plex/library.py:1006: MAX_DIRECTORY_DEPTH, 8 when not configured
DepthInputs == {3, 8}

\* the n files of the directory
files_of(dir_path, n) == {dir_path \o <<"/", "f", LowerChars[k]>> : k \in 1..n}

\* the calls explored: the directories in the order in which their first
\* file comes in list(set(file_paths)) (:969), the number of files of each
MergeInputs ==
    UNION {{[order |-> o, count |-> [d \in MergeDirs |-> IF d \in S THEN c[d] ELSE 0],
             max_directory_depth |-> depth, enable_directory_merging |-> merging] :
               o \in Orders(S), c \in [S -> {FewFiles, ManyFiles}],
               depth \in DepthInputs, merging \in BOOLEAN} :
           S \in {T \in SUBSET MergeDirs : T # {} /\ Cardinality(T) <= MaxMergeDirs}}

\* unique_file_paths of the call
merge_file_paths(in) == UNION {files_of(d, in.count[d]) : d \in Range(in.order)}

\* a dict as the sequence of its items, in the order of the keys
dict_keys(items) == {items[i].dir : i \in 1..Len(items)}

dict_get(items, key) ==
    items[CHOOSE i \in 1..Len(items) : items[i].dir = key].files

\* d[key] = files: a new key comes last, a key of the dict keeps its place
dict_set(items, key, files) ==
    IF key \in dict_keys(items)
    THEN [i \in 1..Len(items) |->
             IF items[i].dir = key THEN [dir |-> key, files |-> files] ELSE items[i]]
    ELSE Append(items, [dir |-> key, files |-> files])

\* plex/library.py:1079-1084: the files grouped by os.path.dirname, the
\* directories in the order in which their first file comes
directory_map(file_paths, order) ==
    [i \in 1..Len(order) |->
        [dir |-> order[i], files |-> {f \in file_paths : dirname(f) = order[i]}]]

\* plex/library.py:1089: len(dir_path.split(os.sep))
dir_depth(dir_path) == Len(split_slash(dir_path))

RECURSIVE deepest_first(_)
\* plex/library.py:1092: sorted(..., key=depth, reverse=True); the sort is
\* stable, directories of one depth keep their order
deepest_first(dirs) ==
    IF dirs = <<>> THEN <<>>
    ELSE LET deepest == CHOOSE d \in Range(dirs) :
                            \A e \in Range(dirs) : dir_depth(e) <= dir_depth(d)
             first == {d \in Range(dirs) : dir_depth(d) = dir_depth(deepest)}
         IN SeqFilter(dirs, first) \o deepest_first(SeqFilter(dirs, Range(dirs) \ first))

\* plex/library.py:1112-1119: a directory added among the last twenty is a
\* proper prefix of dir_path
covered_by_existing(dir_path, merged) ==
    \E i \in 1..Len(merged) :
        /\ i > Len(merged) - recent_directories
        /\ startswith(dir_path, merged[i].dir)
        /\ dir_path # merged[i].dir

\* plex/library.py:1100-1125: one pass of the loop over sorted_directories
merge_directory(dir_path, files_in_dir, merged, processed_files, max_directory_depth) ==
    IF dir_depth(dir_path) > max_directory_depth
    THEN LET parent_dir == dirname(dir_path)
             with_parent == IF parent_dir \in dict_keys(merged) THEN merged
                            ELSE dict_set(merged, parent_dir, {})
             new_files == files_in_dir \ processed_files
         IN [merged |-> dict_set(with_parent, parent_dir,
                                 dict_get(with_parent, parent_dir) \cup new_files),
             processed_files |-> processed_files \cup new_files]
    ELSE IF covered_by_existing(dir_path, merged)
    THEN [merged |-> merged, processed_files |-> processed_files]
    ELSE [merged |-> dict_set(merged, dir_path, files_in_dir),
          processed_files |-> processed_files \cup files_in_dir]

\* plex/library.py:1135-1152: dir_batches of the directories_list
merge_batches(directories_list, file_paths) ==
    LET dirs == [i \in 1..Len(directories_list) |-> directories_list[i].dir]
        count_of == [d \in dict_keys(directories_list) |->
                        Cardinality(dict_get(directories_list, d))]
    IN IF Cardinality(file_paths) <= single_batch_limit THEN <<dirs>>
       ELSE group_batches(dirs, count_of, scan_batch_size, <<>>, 0)

MergeInit ==
    /\ mg_pc = "start"
    /\ mg_in \in MergeInputs
    /\ mg_sorted = <<>>
    /\ mg_merged = <<>>
    /\ mg_processed = {}
    /\ mg_list = <<>>
    /\ mg_batches = <<>>
    /\ mg_calls = <<>>
    /\ mg_success = 0

\* directories_list is complete: the batches are made (:1132-1152)
ListDirectories(directories_list) ==
    /\ mg_list' = directories_list
    /\ mg_batches' = drop_empty_batches(merge_batches(directories_list,
                                                      merge_file_paths(mg_in)))
    /\ mg_pc' = "scanning"

\* plex/library.py:957-1098: the call up to the loop that merges the
\* directories, or up to the batches when nothing is merged
StartScans ==
    /\ mg_pc = "start"
    /\ LET unique_paths == merge_file_paths(mg_in)
           grouped == directory_map(unique_paths, mg_in.order)
       IN IF Cardinality(unique_paths) < fast_path_limit
          THEN \* :1009-1013
               /\ ListDirectories(grouped)
               /\ UNCHANGED <<mg_sorted, mg_merged, mg_processed>>
          ELSE IF ~mg_in.enable_directory_merging
          THEN \* :1079-1084, :1132
               /\ ListDirectories(grouped)
               /\ UNCHANGED <<mg_sorted, mg_merged, mg_processed>>
          ELSE \* :1086-1098
               /\ mg_pc' = "merging"
               /\ mg_sorted' = deepest_first(mg_in.order)
               /\ mg_merged' = <<>>
               /\ mg_processed' = {}
               /\ UNCHANGED <<mg_list, mg_batches>>
    /\ UNCHANGED <<mg_in, mg_calls, mg_success>>
    /\ UNCHANGED not_merge_vars

\* plex/library.py:1100-1125: the next directory of sorted_directories
MergeDirectory ==
    /\ mg_pc = "merging"
    /\ mg_sorted # <<>>
    /\ LET dir_path == Head(mg_sorted)
           after == merge_directory(dir_path, files_of(dir_path, mg_in.count[dir_path]),
                                    mg_merged, mg_processed, mg_in.max_directory_depth)
       IN /\ mg_merged' = after.merged
          /\ mg_processed' = after.processed_files
    /\ mg_sorted' = Tail(mg_sorted)
    /\ UNCHANGED <<mg_pc, mg_in, mg_list, mg_batches, mg_calls, mg_success>>
    /\ UNCHANGED not_merge_vars

\* plex/library.py:1127-1152: the loop is over, directory_map is
\* merged_directories
MergeDone ==
    /\ mg_pc = "merging"
    /\ mg_sorted = <<>>
    /\ ListDirectories(mg_merged)
    /\ UNCHANGED <<mg_in, mg_sorted, mg_merged, mg_processed, mg_calls, mg_success>>
    /\ UNCHANGED not_merge_vars

\* plex/library.py:1178-1222: the refresh call of the next directory has
\* returned scan_result
ScanDirectory(scan_result) ==
    /\ mg_pc = "scanning"
    /\ mg_batches # <<>>
    /\ LET dir_path == Head(Head(mg_batches))
       IN /\ mg_calls' = Append(mg_calls, [dir |-> dir_path, accepted |-> scan_result])
          /\ mg_success' = mg_success
                              + files_counted(dict_get(mg_list, dir_path), scan_result)
    /\ mg_batches' = batches_after(mg_batches, scan_result)
    /\ UNCHANGED <<mg_pc, mg_in, mg_sorted, mg_merged, mg_processed, mg_list>>
    /\ UNCHANGED not_merge_vars

\* plex/library.py:1245-1246: return success_count
ReturnScans ==
    /\ mg_pc = "scanning"
    /\ mg_batches = <<>>
    /\ mg_pc' = "done"
    /\ UNCHANGED <<mg_in, mg_sorted, mg_merged, mg_processed, mg_list, mg_batches,
                   mg_calls, mg_success>>
    /\ UNCHANGED not_merge_vars

MergeNext ==
    \/ StartScans
    \/ MergeDirectory
    \/ MergeDone
    \/ \E scan_result \in BOOLEAN : ScanDirectory(scan_result)
    \/ ReturnScans

\* no call under way
MergeIdle ==
    /\ mg_pc = "start"
    /\ mg_in = [order |-> <<>>, count |-> [d \in MergeDirs |-> 0],
                max_directory_depth |-> 8, enable_directory_merging |-> TRUE]
    /\ mg_sorted = <<>>
    /\ mg_merged = <<>>
    /\ mg_processed = {}
    /\ mg_list = <<>>
    /\ mg_batches = <<>>
    /\ mg_calls = <<>>
    /\ mg_success = 0

----------------------------------------------------------------------------
(* The connection registry of SMBManager (smb_api.py) *)

\* the threads that use the one SMBManager: every keep-alive thread calls
\* connect (snapshot_utils.py:233) on SMBManager.get_instance()
SmbThreads == {"t1", "t2"}

\* smb_api.py:108: conn_key = f"{server}:{share}:{user}"
SmbKeys == {"srv:WebDAV:u", "srv:media:u"}

MaxSmbCalls == 3      \* calls of connect or disconnect the threads make
MaxSmbDrops == 1      \* connections the server drops

\* smb_api.py:76: self.default_timeout = 45 if IS_DOCKER else 30
default_timeout_docker == 45
default_timeout_local == 30
\* smb_api.py:256 and :259: the limits of the adjusted default_timeout
timeout_low_limit == 30
timeout_high_limit == 120

\* smb_api.py:168-177: what the finally clause of connect reports, from the
\* time the call took: True (fast), False (close to the timeout), None
Verdicts == {"good", "poor", "fair"}

count_of(attempts, verdict) == Cardinality({i \in DOMAIN attempts : attempts[i] = verdict})

\* smb_api.py:234-252: the weighted share of good attempts, in hundredths, for
\* attempts of the same second (age 0, weight 1): a poor attempt counts 0.3,
\* a fair one 0; the value is kept when no attempt is good or poor
network_health_after(attempts, health) ==
    IF count_of(attempts, "good") + count_of(attempts, "poor") = 0 THEN health
    ELSE Min(100, Max(10, (100 * count_of(attempts, "good") + 30 * count_of(attempts, "poor"))
                              \div Len(attempts)))

\* smb_api.py:254-260: the default timeout follows the health
default_timeout_after(attempts, health, default_timeout) ==
    IF count_of(attempts, "good") + count_of(attempts, "poor") = 0 THEN default_timeout
    ELSE IF network_health_after(attempts, health) > 80
         THEN Min(timeout_low_limit, (default_timeout * 7) \div 10)
    ELSE IF network_health_after(attempts, health) < 40
         THEN Max(timeout_high_limit, (default_timeout * 3) \div 2)
    ELSE default_timeout

\* smb_api.py:60-81: the manager after __init__
SmbInit ==
    /\ smb_pc = [t \in SmbThreads |-> "idle"]
    /\ smb_key = [t \in SmbThreads |-> "srv:WebDAV:u"]
    /\ smb_conn = [t \in SmbThreads |-> 0]
    /\ smb_lock = "none"
    /\ smb_connections = [k \in SmbKeys |-> 0]
    /\ smb_open = {}
    /\ smb_made = 0
    /\ smb_attempts = <<>>
    /\ smb_health = 100
    /\ smb_timeout \in {default_timeout_local, default_timeout_docker}
    /\ smb_calls = 0
    /\ smb_drops = 0
    /\ smb_replaced = {}

\* smb_api.py:86-108 and :179-182: a thread calls connect or disconnect
SmbCall(t, op, conn_key) ==
    /\ smb_pc[t] = "idle"
    /\ smb_calls < MaxSmbCalls
    /\ smb_calls' = smb_calls + 1
    /\ smb_key' = [smb_key EXCEPT ![t] = conn_key]
    /\ smb_conn' = [smb_conn EXCEPT ![t] = 0]
    /\ smb_pc' = [smb_pc EXCEPT ![t] = op]
    /\ UNCHANGED <<smb_lock, smb_connections, smb_open, smb_made, smb_attempts, smb_health,
                   smb_timeout, smb_drops, smb_replaced>>
    /\ UNCHANGED not_smb_vars

\* the position a thread has once it holds the lock it waits for
locked_position(position) ==
    CASE position = "connect" -> "checking"
      [] position = "store" -> "storing"
      [] position = "finally" -> "updating"
      [] position = "disconnect" -> "disconnecting"
      [] OTHER -> position

\* smb_api.py:111, :148, :185 and :225: "with self._lock", taken when it is free
SmbAcquire(t) ==
    /\ smb_pc[t] \in {"connect", "store", "finally", "disconnect"}
    /\ smb_lock = "none"
    /\ smb_lock' = t
    /\ smb_pc' = [smb_pc EXCEPT ![t] = locked_position(@)]
    /\ UNCHANGED <<smb_key, smb_conn, smb_connections, smb_open, smb_made, smb_attempts,
                   smb_health, smb_timeout, smb_calls, smb_drops, smb_replaced>>
    /\ UNCHANGED not_smb_vars

\* smb_api.py:111-119: under the lock, a registered connection that is
\* connected is returned, one that is not is removed from the registry; the
\* lock is released
SmbCheck(t) ==
    /\ smb_pc[t] = "checking"
    /\ smb_lock = t
    /\ LET conn == smb_connections[smb_key[t]]
       IN IF conn # 0 /\ conn \in smb_open
          THEN /\ smb_conn' = [smb_conn EXCEPT ![t] = conn]
               /\ smb_pc' = [smb_pc EXCEPT ![t] = "idle"]
               /\ smb_connections' = smb_connections
          ELSE /\ smb_conn' = smb_conn
               /\ smb_pc' = [smb_pc EXCEPT ![t] = "create"]
               /\ smb_connections' = [smb_connections EXCEPT ![smb_key[t]] = 0]
    /\ smb_lock' = "none"
    /\ UNCHANGED <<smb_key, smb_open, smb_made, smb_attempts, smb_health, smb_timeout,
                   smb_calls, smb_drops, smb_replaced>>
    /\ UNCHANGED not_smb_vars

\* smb_api.py:121-145 and :153-162: without the lock, a connection object is
\* created and connected; when the server refuses or the call raises, connect
\* returns None through the finally clause
SmbCreate(t, connected) ==
    /\ smb_pc[t] = "create"
    /\ smb_made' = smb_made + 1
    /\ smb_conn' = [smb_conn EXCEPT ![t] = IF connected THEN smb_made + 1 ELSE 0]
    /\ smb_open' = IF connected THEN smb_open \cup {smb_made + 1} ELSE smb_open
    /\ smb_pc' = [smb_pc EXCEPT ![t] = IF connected THEN "store" ELSE "finally"]
    /\ UNCHANGED <<smb_key, smb_lock, smb_connections, smb_attempts, smb_health, smb_timeout,
                   smb_calls, smb_drops, smb_replaced>>
    /\ UNCHANGED not_smb_vars

\* smb_api.py:147-152: under the lock, the connection is stored under its key
SmbStore(t) ==
    /\ smb_pc[t] = "storing"
    /\ smb_lock = t
    /\ smb_connections' = [smb_connections EXCEPT ![smb_key[t]] = smb_conn[t]]
    /\ smb_replaced' = IF smb_connections[smb_key[t]] # 0
                       THEN smb_replaced \cup {smb_connections[smb_key[t]]}
                       ELSE smb_replaced
    /\ smb_lock' = "none"
    /\ smb_pc' = [smb_pc EXCEPT ![t] = "finally"]
    /\ UNCHANGED <<smb_key, smb_conn, smb_open, smb_made, smb_attempts, smb_health,
                   smb_timeout, smb_calls, smb_drops>>
    /\ UNCHANGED not_smb_vars

\* smb_api.py:163-177 and :219-263: the finally clause of connect calls
\* _update_network_health, which records the attempt and adjusts the health
\* and the default timeout under the lock
SmbUpdateHealth(t, verdict) ==
    /\ smb_pc[t] = "updating"
    /\ smb_lock = t
    /\ smb_attempts' = Append(smb_attempts, verdict)
    /\ smb_health' = network_health_after(smb_attempts', smb_health)
    /\ smb_timeout' = default_timeout_after(smb_attempts', smb_health, smb_timeout)
    /\ smb_lock' = "none"
    /\ smb_pc' = [smb_pc EXCEPT ![t] = "idle"]
    /\ UNCHANGED <<smb_key, smb_conn, smb_connections, smb_open, smb_made, smb_calls,
                   smb_drops, smb_replaced>>
    /\ UNCHANGED not_smb_vars

\* smb_api.py:185-192: under the lock, the registered connection is closed
\* and removed; when close raises, the entry stays
SmbDisconnect(t, close_raises) ==
    /\ smb_pc[t] = "disconnecting"
    /\ smb_lock = t
    /\ LET conn == smb_connections[smb_key[t]]
       IN IF conn = 0 \/ close_raises
          THEN UNCHANGED <<smb_connections, smb_open>>
          ELSE /\ smb_open' = smb_open \ {conn}
               /\ smb_connections' = [smb_connections EXCEPT ![smb_key[t]] = 0]
    /\ smb_lock' = "none"
    /\ smb_pc' = [smb_pc EXCEPT ![t] = "idle"]
    /\ UNCHANGED <<smb_key, smb_conn, smb_made, smb_attempts, smb_health, smb_timeout,
                   smb_calls, smb_drops, smb_replaced>>
    /\ UNCHANGED not_smb_vars

\* the server drops a connection: is_connected() of it is false from then on
SmbDrop(conn) ==
    /\ conn \in smb_open
    /\ smb_drops < MaxSmbDrops
    /\ smb_drops' = smb_drops + 1
    /\ smb_open' = smb_open \ {conn}
    /\ UNCHANGED <<smb_pc, smb_key, smb_conn, smb_lock, smb_connections, smb_made,
                   smb_attempts, smb_health, smb_timeout, smb_calls, smb_replaced>>
    /\ UNCHANGED not_smb_vars

SmbNext ==
    \/ \E t \in SmbThreads, op \in {"connect", "disconnect"}, conn_key \in SmbKeys :
           SmbCall(t, op, conn_key)
    \/ \E t \in SmbThreads : SmbAcquire(t)
    \/ \E t \in SmbThreads : SmbCheck(t)
    \/ \E t \in SmbThreads, connected \in BOOLEAN : SmbCreate(t, connected)
    \/ \E t \in SmbThreads : SmbStore(t)
    \/ \E t \in SmbThreads, verdict \in Verdicts : SmbUpdateHealth(t, verdict)
    \/ \E t \in SmbThreads, close_raises \in BOOLEAN : SmbDisconnect(t, close_raises)
    \/ \E conn \in 1..MaxSmbCalls : SmbDrop(conn)

\* no call under way
SmbIdle ==
    /\ smb_pc = [t \in SmbThreads |-> "idle"]
    /\ smb_key = [t \in SmbThreads |-> "srv:WebDAV:u"]
    /\ smb_conn = [t \in SmbThreads |-> 0]
    /\ smb_lock = "none"
    /\ smb_connections = [k \in SmbKeys |-> 0]
    /\ smb_open = {}
    /\ smb_made = 0
    /\ smb_attempts = <<>>
    /\ smb_health = 100
    /\ smb_timeout = default_timeout_local
    /\ smb_calls = 0
    /\ smb_drops = 0
    /\ smb_replaced = {}

----------------------------------------------------------------------------
(* The keep-alive thread of a scan (snapshot_utils.py keep_smb_alive) *)

KeepAliveInterval == 2  \* interval, in ticks
MaxProbes == 4          \* probes explored
MaxKaTicks == 8         \* ticks explored

\* snapshot_utils.py:405-428 and :248-260: generate_snapshot has called
\* keep_smb_alive, the thread is started and the scan goes on
KeepAliveInit ==
    /\ ka_docker \in BOOLEAN
    /\ ka_pc = "enter"
    /\ ka_left = 0
    /\ ka_stop_event = FALSE
    /\ ka_caller = "scanning"
    /\ ka_join_left = 0
    /\ ka_probes = 0
    /\ ka_late = 0
    /\ ka_now = 0

\* snapshot_utils.py:184-228: in Docker the thread only waits for the event,
\* elsewhere it goes to the loop of the probes
KaEnter ==
    /\ ka_pc = "enter"
    /\ IF ka_docker
       THEN IF ka_stop_event
            THEN ka_pc' = "returned" /\ ka_left' = ka_left
            ELSE ka_pc' = "waiting" /\ ka_left' = KeepAliveInterval
       ELSE ka_pc' = "probing" /\ ka_left' = ka_left
    /\ UNCHANGED <<ka_docker, ka_stop_event, ka_caller, ka_join_left, ka_probes, ka_late, ka_now>>
    /\ UNCHANGED not_ka_vars

\* snapshot_utils.py:192-196: "while not stop_event.is_set():
\* stop_event.wait(interval)": the wait ends when the event is set or the
\* interval is over, and the loop ends when the event is set
KaWaitEnd ==
    /\ ka_pc = "waiting"
    /\ ka_stop_event \/ ka_left = 0
    /\ IF ka_stop_event
       THEN ka_pc' = "returned" /\ ka_left' = 0
       ELSE ka_pc' = "waiting" /\ ka_left' = KeepAliveInterval
    /\ UNCHANGED <<ka_docker, ka_stop_event, ka_caller, ka_join_left, ka_probes, ka_late, ka_now>>
    /\ UNCHANGED not_ka_vars

\* snapshot_utils.py:226-246: one pass of "while True": the probe (connect
\* and path_exists, whatever they give), then time.sleep(interval)
KaProbe ==
    /\ ka_pc = "probing"
    /\ ka_probes < MaxProbes
    /\ ka_probes' = ka_probes + 1
    /\ ka_late' = IF ka_caller = "stopped" THEN ka_late + 1 ELSE ka_late
    /\ ka_pc' = "sleeping"
    /\ ka_left' = KeepAliveInterval
    /\ UNCHANGED <<ka_docker, ka_stop_event, ka_caller, ka_join_left, ka_now>>
    /\ UNCHANGED not_ka_vars

\* snapshot_utils.py:246 and :226: the sleep is over, the loop goes round
KaWake ==
    /\ ka_pc = "sleeping"
    /\ ka_left = 0
    /\ ka_pc' = "probing"
    /\ UNCHANGED <<ka_docker, ka_left, ka_stop_event, ka_caller, ka_join_left, ka_probes,
                   ka_late, ka_now>>
    /\ UNCHANGED not_ka_vars

\* snapshot_utils.py:1034-1038 and :253-256: the scan is over and calls
\* stop(), which sets the event and joins the thread for interval + 1
KaStop ==
    /\ ka_caller = "scanning"
    /\ ka_stop_event' = TRUE
    /\ ka_caller' = "joining"
    /\ ka_join_left' = KeepAliveInterval + 1
    /\ UNCHANGED <<ka_docker, ka_pc, ka_left, ka_probes, ka_late, ka_now>>
    /\ UNCHANGED not_ka_vars

\* snapshot_utils.py:256-257 and :1039-1042: the join ends when the thread
\* has returned or the time is over; stop() returns
KaJoinEnd ==
    /\ ka_caller = "joining"
    /\ ka_pc = "returned" \/ ka_join_left = 0
    /\ ka_caller' = "stopped"
    /\ ka_join_left' = 0
    /\ UNCHANGED <<ka_docker, ka_pc, ka_left, ka_stop_event, ka_probes, ka_late, ka_now>>
    /\ UNCHANGED not_ka_vars

\* a step that takes no time is enabled
ka_immediate ==
    \/ ka_pc \in {"enter", "probing"}
    \/ ka_pc = "waiting" /\ (ka_stop_event \/ ka_left = 0)
    \/ ka_pc = "sleeping" /\ ka_left = 0
    \/ ka_caller = "joining" /\ (ka_pc = "returned" \/ ka_join_left = 0)

\* one tick of time passes for the wait or sleep of the thread and for the
\* join of the scan; time passes only when no step that takes no time is left
KaTick ==
    /\ ~ka_immediate \/ (ka_pc = "probing" /\ ka_probes = MaxProbes)
    /\ ka_now < MaxKaTicks
    /\ ka_now' = ka_now + 1
    /\ ka_left' = IF ka_left > 0 THEN ka_left - 1 ELSE 0
    /\ ka_join_left' = IF ka_join_left > 0 THEN ka_join_left - 1 ELSE 0
    /\ UNCHANGED <<ka_docker, ka_pc, ka_stop_event, ka_caller, ka_probes, ka_late>>
    /\ UNCHANGED not_ka_vars

KeepAliveNext ==
    \/ KaEnter
    \/ KaWaitEnd
    \/ KaProbe
    \/ KaWake
    \/ KaStop
    \/ KaJoinEnd
    \/ KaTick

\* no keep-alive thread
KeepAliveIdle ==
    /\ ka_docker = FALSE
    /\ ka_pc = "returned"
    /\ ka_left = 0
    /\ ka_stop_event = FALSE
    /\ ka_caller = "stopped"
    /\ ka_join_left = 0
    /\ ka_probes = 0
    /\ ka_late = 0
    /\ ka_now = 0

----------------------------------------------------------------------------
(* Specifications *)

InitDaemon == DaemonInit /\ SaveIdle /\ StoreIdle /\ DiffIdle /\ DispatchIdle /\ ScanIdle
    /\ ResolveIdle
    /\ CleanIdle
    /\ RefreshIdle
    /\ PoolIdle
    /\ MergeIdle
    /\ SmbIdle
    /\ KeepAliveIdle

SpecDaemon == InitDaemon /\ [][DaemonNext]_vars

\* the daemon when both threads keep running and the scan in flight returns:
\* a thread that can take a step eventually takes one
SpecDaemonLive ==
    InitDaemon /\ [][DaemonNext]_vars /\ WF_vars(MainThread) /\ WF_vars(WorkerThread)

InitSave == SaveInit /\ DaemonIdle /\ StoreIdle /\ DiffIdle /\ DispatchIdle /\ ScanIdle
    /\ ResolveIdle
    /\ CleanIdle
    /\ RefreshIdle
    /\ PoolIdle
    /\ MergeIdle
    /\ SmbIdle
    /\ KeepAliveIdle

SpecSave == InitSave /\ [][SaveNext]_vars

InitStore == StoreInit /\ DaemonIdle /\ SaveIdle /\ DiffIdle /\ DispatchIdle /\ ScanIdle
    /\ ResolveIdle
    /\ CleanIdle
    /\ RefreshIdle
    /\ PoolIdle
    /\ MergeIdle
    /\ SmbIdle
    /\ KeepAliveIdle

SpecStore == InitStore /\ [][StoreNext]_vars

InitDiff == DiffInit /\ DaemonIdle /\ SaveIdle /\ StoreIdle /\ DispatchIdle /\ ScanIdle
    /\ ResolveIdle
    /\ CleanIdle
    /\ RefreshIdle
    /\ PoolIdle
    /\ MergeIdle
    /\ SmbIdle
    /\ KeepAliveIdle

SpecDiff == InitDiff /\ [][DiffNext]_vars

InitDispatch == DispatchInit /\ DaemonIdle /\ SaveIdle /\ StoreIdle /\ DiffIdle /\ ScanIdle
    /\ ResolveIdle
    /\ CleanIdle
    /\ RefreshIdle
    /\ PoolIdle
    /\ MergeIdle
    /\ SmbIdle
    /\ KeepAliveIdle

SpecDispatch == InitDispatch /\ [][DispatchNext]_vars

InitScan == ScanInit /\ DaemonIdle /\ SaveIdle /\ StoreIdle /\ DiffIdle /\ DispatchIdle
    /\ ResolveIdle
    /\ CleanIdle
    /\ RefreshIdle
    /\ PoolIdle
    /\ MergeIdle
    /\ SmbIdle
    /\ KeepAliveIdle

SpecScan == InitScan /\ [][ScanNext]_vars

InitResolve ==
    ResolveInit /\ DaemonIdle /\ SaveIdle /\ StoreIdle /\ DiffIdle /\ DispatchIdle
    /\ ScanIdle
    /\ CleanIdle
    /\ RefreshIdle
    /\ PoolIdle
    /\ MergeIdle
    /\ SmbIdle
    /\ KeepAliveIdle

SpecResolve == InitResolve /\ [][ResolveNext]_vars

InitClean ==
    CleanInit /\ StoreIdle /\ DiffIdle /\ SaveIdle /\ DaemonIdle
    /\ DispatchIdle /\ ScanIdle /\ ResolveIdle
    /\ RefreshIdle
    /\ PoolIdle
    /\ MergeIdle
    /\ SmbIdle
    /\ KeepAliveIdle

SpecClean == InitClean /\ [][CleanNext]_vars

InitRefresh ==
    RefreshInit /\ StoreIdle /\ DiffIdle /\ SaveIdle /\ DaemonIdle
    /\ DispatchIdle /\ ScanIdle /\ ResolveIdle /\ CleanIdle
    /\ PoolIdle
    /\ MergeIdle
    /\ SmbIdle
    /\ KeepAliveIdle

SpecRefresh == InitRefresh /\ [][RefreshNext]_vars

InitPool ==
    PoolInit /\ StoreIdle /\ DiffIdle /\ SaveIdle /\ DaemonIdle
    /\ DispatchIdle /\ ScanIdle /\ ResolveIdle /\ CleanIdle /\ RefreshIdle
    /\ MergeIdle
    /\ SmbIdle
    /\ KeepAliveIdle

SpecPool == InitPool /\ [][PoolNext]_vars

InitMerge ==
    MergeInit /\ StoreIdle /\ DiffIdle /\ SaveIdle /\ DaemonIdle
    /\ DispatchIdle /\ ScanIdle /\ ResolveIdle /\ CleanIdle /\ RefreshIdle
    /\ PoolIdle
    /\ SmbIdle
    /\ KeepAliveIdle

SpecMerge == InitMerge /\ [][MergeNext]_vars

InitSmb ==
    SmbInit /\ StoreIdle /\ DiffIdle /\ SaveIdle /\ DaemonIdle
    /\ DispatchIdle /\ ScanIdle /\ ResolveIdle /\ CleanIdle /\ RefreshIdle
    /\ PoolIdle /\ MergeIdle
    /\ KeepAliveIdle

SpecSmb == InitSmb /\ [][SmbNext]_vars

InitKeepAlive ==
    KeepAliveInit /\ StoreIdle /\ DiffIdle /\ SaveIdle /\ DaemonIdle
    /\ DispatchIdle /\ ScanIdle /\ ResolveIdle /\ CleanIdle /\ RefreshIdle
    /\ PoolIdle /\ MergeIdle /\ SmbIdle

SpecKeepAlive == InitKeepAlive /\ [][KeepAliveNext]_vars

----------------------------------------------------------------------------
(* Claims about the daemon loop *)

C5_LoopWaitsAtMostDeadline ==
    pc \in {"rwt_wait", "rwt_exit"} => elapsed <= Deadline

C15_ResultIsFourTuple ==
    /\ worker_pc = "unpack" => Len(gen_result) = 4
    /\ future # "raised"

----------------------------------------------------------------------------
(* Claims about the write of the snapshot file *)

\* C3: the write is atomic: from the moment the write of a non-empty scan
\* starts, the target file holds either the complete previous snapshot (what
\* it held before, possibly nothing) or the complete new snapshot
C3_TargetPreviousOrNew ==
    (file_count > 0 /\ s_pc # "scan_done") =>
        \/ target = prev_target
        \/ target = full_content(file_count)

\* C6: no partial snapshot is ever at the target location: a target file that
\* exists holds every record of the scan it comes from
C6_NoPartialRecord ==
    (file_count > 0 /\ target # Absent) =>
        \/ target = prev_target
        \/ target = full_content(file_count)

----------------------------------------------------------------------------
(* Claims about the snapshot store *)

\* C2: the file name of a tree's record depends on the normalized root only:
\* all the names computed for one root, at whatever time, are the same name
C2_KeyStable ==
    \A r \in NormRoots : Cardinality(keys_computed[r]) <= 1

\* C7: once a scan of a root found files, so that their record was to be
\* saved, a later call for that root (no forced update, path accessible)
\* finds a prior record and returns that record
C7_LoadReturnsSaved ==
    (st_call.valid /\ ~st_call.force /\ st_call.prior # NoRecord) =>
        /\ st_call.loaded
        /\ \A document \in st_call.prior : st_result[2] = json_load(document)

----------------------------------------------------------------------------
(* Claims about the comparison of two scans *)

----------------------------------------------------------------------------
(* Claims about the dispatcher *)

\* C1: a call of update_library_with_files that repeats the previous call
\* (same directory, same files, no change of the file system in between)
\* returns 0 and issues no refresh call
C1_RepeatedDispatchIsNoop ==
    (last_call.returned /\ last_call.repeat) =>
        (last_call.result = 0 /\ last_call.refresh_calls = {})

\* the refresh call c covers the file f of the last call: it is for the
\* directory of f, or, in a full scan, for the directory the call was for
C9_Covers(c, f) ==
    IF last_call.mode = "full"
    THEN c.dir = last_call.directory /\ startswith(f, c.dir \o <<Slash>>)
    ELSE c.dir = dirname(f)

C10_SkipWhenResolverNone ==
    (last_call.returned /\ last_call.mode # "none" /\ last_call.resolved = "none") =>
        (last_call.refresh_calls = {} /\ last_call.result = 0)

\* C10 amended: when the resolver returns none and no library is found by
\* name either (for a WebDAV path by category or directory name, for any
\* path a library whose name holds the directory's name), the call
\* dispatches no refresh call and returns 0
C10_SkipWhenNoLibraryByName ==
    ( /\ last_call.returned /\ last_call.mode # "none"
      /\ last_call.resolved = "none"
      /\ (\E prefix \in WebDAVPrefixes : startswith(last_call.directory, prefix))
            => webdav_match(last_call.directory, disp_libraries) = NoLibrary
      /\ \A i \in 1..Len(disp_libraries) :
            ~contains(lower(disp_libraries[i].name), lower(basename(last_call.directory))) )
    => (last_call.refresh_calls = {} /\ last_call.result = 0)

\* a call with files that exist, for a directory no library matches by path
\* or by name, returned without a refresh call
C10_Witness ==
    /\ last_call.returned /\ last_call.mode = "no_library"
    /\ last_call.directory = DirUnrelated
    /\ disp_libraries = Libraries
    /\ valid_files(last_call.file_paths) # {}
    /\ last_call.refresh_calls = {} /\ last_call.result = 0

----------------------------------------------------------------------------
(* Claims about the directory scanner *)

\* the files of a tree that are neither auxiliary nor below the threshold
scan_eligible(files_on_disk, threshold) ==
    {f \in files_on_disk : /\ ~auxiliary_file[f]
                           /\ ~below_min_size(scan_getsize[f], threshold)}

\* the counters of the core
scan_counters(locals) ==
    <<locals.skipped_small, locals.skipped_auxiliary, locals.error_count,
      locals.success_count, locals.smb_errors>>

\* C11 as stated: when os.path.getsize fails for a file, the scan goes on,
\* the file is not added to the list, a counter of the scan changes, and the
\* snapshot that is written holds every other eligible file of the tree
C11_FileFailureCounted ==
    [][ /\ \A e \in sc_failed' \ sc_failed :
              /\ sc_pc' = "workers"
              /\ sc_pending' = sc_pending \ {e.file}
              /\ sc_locals'.file_paths = sc_locals.file_paths
              /\ scan_counters(sc_locals') # scan_counters(sc_locals)
        /\ (sc_pc = "workers" /\ sc_written') =>
              Range(sc_output') =
                 scan_eligible(sc_in.tree, min_size_bytes(0, sc_in.min_size_mb))
                    \ {e.file : e \in sc_failed} ]_vars

\* C11, amended: when os.path.getsize fails for a file, the scan goes on and
\* the file is not added to the list; a failure whose message names a
\* connection condition adds one to error_count and to the connection errors
\* and resets success_count, any other failure changes no counter; the
\* snapshot that is written holds every other eligible file of the tree
C11_FileFailureOmitsFile ==
    [][ /\ \A e \in sc_failed' \ sc_failed :
              /\ sc_pc' = "workers"
              /\ sc_pending' = sc_pending \ {e.file}
              /\ sc_locals'.file_paths = sc_locals.file_paths
              /\ IF is_connection_error[e.error_msg]
                 THEN sc_locals' = [sc_locals EXCEPT !.error_count = @ + 1,
                                                     !.smb_errors = @ + 1,
                                                     !.success_count = 0]
                 ELSE sc_locals' = sc_locals
        /\ (sc_pc = "workers" /\ sc_written') =>
              Range(sc_output') =
                 scan_eligible(sc_in.tree, min_size_bytes(0, sc_in.min_size_mb))
                    \ {e.file : e \in sc_failed} ]_vars

\* os.path.getsize failed for one file of a tree and the snapshot of the scan
\* was written with the two other eligible files
C11_Witness ==
    /\ sc_written
    /\ sc_failed # {}
    /\ Len(sc_output) >= 2

\* C12: when the listing of the root directory fails, the call returns a
\* failure (the third element of its result is false) and the call writes
\* no snapshot
C12_RootFailureIsFatal ==
    (sc_pc = "returned" /\ ~sc_in.root_ok) =>
        /\ ~sc_result[3]
        /\ ~sc_written
        /\ sc_in.dir = ScanRoot => sc_output = <<>>

\* a call on a tree that holds files has returned after the listing of its
\* root failed
C12_Witness ==
    /\ sc_pc = "returned"
    /\ ~sc_in.root_ok
    /\ sc_in.dir = ScanRoot
    /\ sc_in.tree # {}
    /\ sc_is_docker

\* C13: when the deadline of a call expired, the call returns a failure,
\* unless it wrote a snapshot: then it returns success with the records of
\* the snapshot it wrote
C13_DeadlineReportsWrittenSnapshot ==
    (sc_pc = "returned" /\ sc_timed_out) =>
        IF sc_written
        THEN sc_result[3] /\ sc_result[2] = sc_output
        ELSE ~sc_result[3]

\* C17: no path that equals an entry of the excluded paths, or lies under
\* one, is ever in a snapshot, and the file whose name only starts like an
\* entry is not excluded
C17_ExcludedPathsNeverInSnapshot ==
    /\ \A i \in 1..Len(sc_output) : ~excluded_file[sc_output[i]]
    /\ ~excluded_file[FileNearExcluded]

\* C18: the records of a snapshot are in ascending order of their path, and
\* no path occurs twice
C18_SnapshotSortedNoDuplicates ==
    \A i, j \in 1..Len(sc_output) :
        i < j => path_less[sc_output[i]][sc_output[j]]

\* the workers reported two files or more in another order than the order
\* of the paths, and the snapshot was written
C18_Witness ==
    /\ sc_pc = "wrapper"
    /\ sc_written
    /\ Len(sc_output) >= 2
    /\ sc_locals.file_paths # sc_output

\* C19: no file with an auxiliary extension is ever in a snapshot, whatever
\* its size; when a worker processes such a file it counts it as auxiliary
\* and never looks at its size: it is neither counted as small nor can the
\* reading of its size fail
C19_AuxiliaryNeverInSnapshot ==
    [][ /\ \A i \in 1..Len(sc_output') : ~has_auxiliary_extension[sc_output'[i]]
        /\ \A f \in sc_pending \ sc_pending' : has_auxiliary_extension[f] =>
              /\ sc_locals' = [sc_locals EXCEPT !.skipped_auxiliary = @ + 1]
              /\ sc_failed' = sc_failed ]_vars

\* a snapshot was written for a tree that holds a subtitle file larger than
\* the threshold and a poster smaller than it, both counted as auxiliary
C19_Witness ==
    /\ sc_written
    /\ {FileSubtitle, FilePoster} \subseteq sc_in.tree
    /\ sc_locals.skipped_auxiliary = 2
    /\ sc_locals.skipped_small = 0
    /\ min_size_bytes(0, sc_in.min_size_mb) > scan_getsize[FilePoster]
    /\ min_size_bytes(0, sc_in.min_size_mb) < scan_getsize[FileSubtitle]

\* C20: in a snapshot written with a positive threshold, a file that is not
\* auxiliary and whose size could be read is present exactly when its size
\* is at least the threshold: the file of the threshold's size is in it, the
\* file one byte smaller is not
C20_ThresholdInclusive ==
    LET threshold == min_size_bytes(0, sc_in.min_size_mb)
    IN (sc_written /\ threshold > 0) =>
          \A f \in sc_in.tree \ {e.file : e \in sc_failed} :
              ~auxiliary_file[f] =>
                 (f \in Range(sc_output) <=> scan_getsize[f] >= threshold)

\* a snapshot was written for a tree holding the file of exactly the
\* threshold's size and the file one byte smaller; only the first is in it
C20_Witness ==
    /\ sc_written
    /\ {FileExact, FileBelow} \subseteq sc_in.tree
    /\ scan_getsize[FileExact] = min_size_bytes(0, sc_in.min_size_mb)
    /\ scan_getsize[FileBelow] = min_size_bytes(0, sc_in.min_size_mb) - 1
    /\ sc_failed = {}
    /\ FileExact \in Range(sc_output)
    /\ FileBelow \notin Range(sc_output)
    /\ sc_locals.skipped_small = 1

----------------------------------------------------------------------------
(* Claims about the resolvers *)

\* plex/library.py:117: the targets under whose root the path lies
containing_targets(path, targets) ==
    {i \in DOMAIN targets :
        startswith(lower(normalize_path(path)),
                   lower(normalize_path(targets[i].path)) \o <<Slash>>)}

\* plex/library.py:130: the targets whose root lies under the path
contained_targets(path, targets) ==
    {i \in DOMAIN targets :
        startswith(lower(normalize_path(targets[i].path)),
                   lower(normalize_path(path)) \o <<Slash>>)}

\* the target of the longest root among those of among, the first of them in
\* the list when several have it
deepest_target(among, targets) ==
    CHOOSE i \in among : \A j \in among :
        \/ Len(normalize_path(targets[i].path)) > Len(normalize_path(targets[j].path))
        \/ /\ Len(normalize_path(targets[i].path)) = Len(normalize_path(targets[j].path))
           /\ i <= j

\* plex/library.py:171-178: the score of the match by name, 0 when the name
\* does not occur in the path
name_score(path, lib) ==
    LET path_lower == lower(normalize_path(path))
        parts == split_slash(path_lower)
    IN IF lib.name = <<>> \/ ~contains(path_lower, lower(lib.name)) THEN 0
       ELSE 2 * Len(lib.name)
              + (IF contains(parts[Len(parts)], lower(lib.name)) THEN 5 ELSE 0)

\* library_utils.py:127-128 and :150: the targets whose root is the path or
\* holds it, letter case included
containing_targets_exact(path, targets) ==
    {i \in DOMAIN targets :
        LET lib_path == library_utils_normalize_path(targets[i].path)
            norm_current == library_utils_normalize_path(path)
        IN norm_current = lib_path \/ startswith(norm_current, lib_path \o <<Slash>>)}

\* library_utils.py:126: the targets the first pass accepts for the path
type_matching(path, targets) ==
    {i \in DOMAIN targets :
        targets[i].type = target_type(path) \/ target_type(path) = "unknown"}

----------------------------------------------------------------------------
(* Claims about the cleaning of old records *)

\* the records of scans the directory held when the last cleaning started
records_before ==
    IF cl_call.called /\ cl_call.before # NoDirectory
    THEN {f \in ScanRecordEntries : cl_call.before[f] # NoEntry}
    ELSE {}

\* record f is among the newest max_count however equal times are ordered
among_newest(f) ==
    Cardinality({g \in records_before \ {f} : cl_call.before[g] >= cl_call.before[f]})
        < cl_call.max_count

\* record f lies beyond the newest max_count however equal times are ordered
beyond_newest(f) ==
    Cardinality({g \in records_before : cl_call.before[g] > cl_call.before[f]})
        >= cl_call.max_count

\* record f was older than max_age_days when the cleaning started
older_than_max_age(f) ==
    clean_time - cl_call.before[f] > cl_call.max_age_days * seconds_per_day

\* C21: a cleaning deletes the records of scans that lie beyond the newest
\* max_count and, of the newest max_count, those older than max_age_days,
\* unless os.remove failed on the file; a record among the newest max_count
\* that is not older than max_age_days is retained, and so is every entry
\* that is not a record of a scan; the counts returned are those of the
\* deletions
C21_CleanDeletesBeyondCountOrOlder ==
    cl_result.success =>
        /\ \A f \in records_before :
             /\ (among_newest(f) /\ ~older_than_max_age(f)) => cl_dir[f] = cl_call.before[f]
             /\ ((beyond_newest(f) \/ older_than_max_age(f)) /\ f \notin cl_call.failing)
                    => cl_dir[f] = NoEntry
             /\ f \in cl_call.failing => cl_dir[f] = cl_call.before[f]
        /\ \A i \in DOMAIN cl_dir \ records_before : cl_dir[i] = cl_call.before[i]
        /\ cl_result.total_snapshots = Cardinality(records_before)
        /\ cl_result.deleted_count =
               Cardinality({f \in records_before : cl_dir[f] = NoEntry})
        /\ cl_result.remaining_count =
               Cardinality({f \in records_before : cl_dir[f] # NoEntry})

\* C21 as stated: only records both older than max_age_days and beyond the
\* newest max_count are deleted, a record among the newest max_count is retained
C21_NewestCountRetained ==
    cl_result.success =>
        \A f \in records_before :
            /\ cl_dir[f] = NoEntry => (older_than_max_age(f) /\ beyond_newest(f))
            /\ among_newest(f) => cl_dir[f] = cl_call.before[f]

\* a cleaning that kept one of the newest two records, deleted the other one
\* for its age and deleted the record beyond the newest two
C21_Witness ==
    /\ cl_result.success
    /\ cl_call.max_count = 2
    /\ cl_call.failing = {}
    /\ cl_result.deleted_count = 2
    /\ cl_result.remaining_count = 1
    /\ \E f, g, h \in records_before :
         /\ among_newest(f) /\ older_than_max_age(f) /\ cl_dir[f] = NoEntry
         /\ beyond_newest(g) /\ cl_dir[g] = NoEntry
         /\ among_newest(h) /\ ~older_than_max_age(h) /\ cl_dir[h] # NoEntry

----------------------------------------------------------------------------
(* Claims about the refresh calls *)

\* the checksum of the valid files is what library_<id>_files.json holds
snapshot_holds_new_checksum ==
    rf_snapshot.exists /\ rf_snapshot.checksum = _calculate_files_checksum(rf_files)

\* C22: while a call of update_library_with_files has refresh calls left to
\* make, the file library_<id>_files.json does not hold the checksum of the
\* files of the call yet
C22_SnapshotSavedAfterRefreshCalls ==
    rf_pc = "scanning" => ~snapshot_holds_new_checksum

\* the media files the call c was to scan whose directory got no accepted
\* refresh call in c
missed_files(c) ==
    IF c.branch # "incremental" THEN {}
    ELSE {f \in main_media_files(c.files_to_scan) :
             ~\E i \in 1..Len(c.log) : c.log[i].accepted /\ c.log[i].dir = refresh_dirname[f]}

\* C23: the call that follows a call in which the refresh call for the
\* directory of a new file was refused, or was never made because the call
\* was interrupted, does not return 0 on equal checksums: it makes a
\* refresh call for the directory of that file, or for the whole directory
C23_FailedPathDispatchedAgain ==
    (rf_pc = "idle" /\ rf_last.mode \notin {"none", "interrupted"}) =>
        \A f \in missed_files(rf_prev) :
            /\ rf_last.mode # "unchanged"
            /\ \E i \in 1..Len(rf_last.log) :
                   rf_last.log[i].dir \in {refresh_dirname[f], DirWebDAV}

RECURSIVE directories_left(_)
\* the directories of the batches still to process
directories_left(batches) ==
    IF batches = <<>> THEN {}
    ELSE Range(Head(batches)) \cup directories_left(Tail(batches))

\* the files of file_paths in the directories of dirs
files_under(file_paths, dirs) == {f \in file_paths : refresh_dirname[f] \in dirs}

\* C28: a refresh call Plex refuses, after its retries or at once, does not
\* end _trigger_individual_file_scans: every other directory still to scan,
\* in the batch under way and in the batches that follow, stays to be
\* scanned, so a call that returns has made one refresh call for every
\* directory of its files; the files of a refused directory are not counted
\* in the value returned
C28_FailedRefreshDoesNotAbort ==
    /\ [](rf_pc = "scanning" =>
             /\ directories_left(rf_batches) \cup {rf_log[i].dir : i \in 1..Len(rf_log)}
                   = directories_of(main_media_files(rf_files_to_scan))
             /\ \A i \in 1..Len(rf_log) : rf_log[i].dir \notin directories_left(rf_batches))
    /\ []((rf_pc = "idle" /\ rf_last.mode = "incremental") =>
             /\ {rf_last.log[i].dir : i \in 1..Len(rf_last.log)} = rf_last.directories
             /\ Len(rf_last.log) = Cardinality(rf_last.directories)
             /\ rf_last.result =
                   Cardinality(files_under(main_media_files(rf_last.files_to_scan),
                                           {rf_last.log[i].dir : i \in
                                               {j \in 1..Len(rf_last.log) :
                                                   rf_last.log[j].accepted}})))
    /\ [][ (rf_pc = "scanning" /\ Len(rf_log') = Len(rf_log) + 1) =>
              /\ rf_pc' = "scanning"
              /\ directories_left(rf_batches') =
                    directories_left(rf_batches) \ {Head(Head(rf_batches))}
              /\ rf_success_count' >= rf_success_count
              /\ ~rf_log'[Len(rf_log')].accepted => rf_success_count' = rf_success_count ]_vars

\* a call returned after three refresh calls in two batches: the two of the
\* first batch were refused, the one of the second batch was accepted
C28_Witness ==
    /\ rf_pc = "idle" /\ rf_last.mode = "incremental"
    /\ Len(rf_last.log) = 3
    /\ ~rf_last.log[1].accepted /\ rf_last.log[1].batches_left = 2
    /\ ~rf_last.log[2].accepted
    /\ rf_last.log[3].accepted /\ rf_last.log[3].batches_left = 1
    /\ rf_last.result > 0

\* the delays of the request under way grow
delays_grow == \A i \in 1..(Len(rf_delays) - 1) : rf_delays[i + 1] > rf_delays[i]

\* C29: a refresh call is tried a bounded number of times: _make_request
\* makes at most 1 + MAX_RETRIES requests with a growing delay between them,
\* and a directory gets at most 1 + max_retries calls of scan_library, after
\* which it is reported as failed
C29_RefreshAttemptsBounded ==
    /\ rf_retries <= api_max_retries
    /\ Len(rf_delays) = rf_retries
    /\ delays_grow
    /\ rf_scan_calls <= 1 + max_retries

----------------------------------------------------------------------------
(* Claims about the worker pool of the scanner *)

\* the files handed to a pool so far
submitted_files == 1..batch_start(wp_env.batches, wp_batch)

\* C24: every file handed to the pool whose os.path.getsize succeeds has its
\* record in the list the scan writes, whatever the threads and the
\* replacements of the pool did: when the list has been sorted and written,
\* no file is missing from it
C24_EveryFileRecordedAtWrite ==
    wp_result = "written" =>
        \A f \in submitted_files \ wp_env.outage : f \in Range(wp_output)

\* C25: every pool of a scan, the first one and the one after each growth
\* or shrink, has at least min_workers and at most max_workers threads
C25_PoolSizeWithinBounds ==
    \A e \in 1..Len(wp_executors) :
        /\ wp_executors[e].size >= min_workers
        /\ wp_executors[e].size <= wp_env.max_workers

\* C26: when a pass of the batch loop has met an error streak of 5, the pool
\* is at its minimum size, the delay is above the one the scan started with,
\* and the scan has not ended with an error
C26_FiveErrorsShrinkToMinimum ==
    (wp_seen.passes > 0 /\ wp_seen.error_count >= 5) =>
        /\ wp_executors[Len(wp_executors)].size = min_workers
        /\ wp_locals.adaptive_batch_delay > pool_locals(wp_env.kind).adaptive_batch_delay
        /\ wp_result # "unbound_local_error"

\* every call handed to a pool has returned
pool_quiet ==
    /\ wp_running = {}
    /\ \A e \in 1..Len(wp_executors) : wp_executors[e].queue = <<>>

\* C27: no increment of the success streak is lost: in a scan without any
\* error (and in Docker, where the loop never resets the streak), once every
\* call of process_file has returned, success_count is the number of files
\* that succeeded
C27_NoIncrementLost ==
    (wp_pc # "idle" /\ wp_env.is_docker /\ wp_env.outage = {} /\ pool_quiet) =>
        wp_locals.success_count = Cardinality(wp_locals.file_paths)

----------------------------------------------------------------------------
(* Claims about the retries of the write of the snapshot file *)

\* the write of the temporary file failed: the call returned before any
\* attempt to rename
temp_write_failed == attempt = 0 /\ temp = Absent /\ target = prev_target

\* the copy gave up: three attempts failed, or there was no temporary file
\* to copy from
copy_fallback_failed ==
    /\ attempt = max_rename_retries
    /\ copy_attempt = max_copy_retries \/ temp = Absent

compared_files(c) == c.mode \in {"incremental", "nothing_new"}

\* the paths of a set, in lower case with single separators
lower_paths(paths) == {lower(normalize_path(g)) : g \in paths}

C31_WitnessOldSnapshot ==
    /\ compared_files(last_call)
    /\ last_call.has_old_snapshot
    /\ Cardinality(last_call.valid_file_paths) = 2
    /\ Cardinality(last_call.new_files) = 1
    /\ last_call.refresh_calls # {}

\* ---------------------------------------------------------------------
\* Claims about the merged directories
\* ---------------------------------------------------------------------

\* the directories of directories_list
listed_directories == dict_keys(mg_list)

\* dir_path is the directory ancestor or a directory under it
lies_under(dir_path, ancestor) ==
    dir_path = ancestor \/ startswith(dir_path, ancestor \o <<"/">>)

\* the call has merged the directories of its files (:1086-1129)
merged_list_made ==
    /\ mg_pc \in {"scanning", "done"}
    /\ mg_in.enable_directory_merging
    /\ Cardinality(merge_file_paths(mg_in)) >= fast_path_limit

\* C32: with directory merging enabled, the list of directories to refresh
\* never holds two directories of which one lies under the other.
C32_NoNestedDirectories ==
    merged_list_made =>
        \A d \in listed_directories, e \in listed_directories :
            d # e => ~lies_under(d, e)

\* C33: every file handed to _trigger_individual_file_scans lies in or under
\* a directory of the list of directories to refresh.
C33_EveryFileCovered ==
    merged_list_made =>
        \A f \in merge_file_paths(mg_in) :
            \E d \in listed_directories : lies_under(dirname(f), d)

\* ---------------------------------------------------------------------
\* Claims about the rules of the resolver
\* ---------------------------------------------------------------------

\* the targets whose root is the path itself, letter case aside
root_targets(path, targets) ==
    {i \in DOMAIN targets :
        lower(normalize_path(targets[i].path)) = lower(normalize_path(path))}

\* C34: a path that equals the root of a target matches that target by
\* containment with the length of the root as score: the resolver of the
\* daemon returns a match that scores at least as much.
C34_EqualPathIsContained ==
    "library" \in rs_called =>
        \A i \in root_targets(rs_path, rs_targets) :
            /\ rs_match # NoLibrary
            /\ rs_match.match_score >= Len(normalize_path(rs_targets[i].path))

\* library_utils.py:127-128: there the root itself is held by the target; a
\* target at the root is the result unless the targets of the path's type
\* that hold the path are all above the root
C34_LibraryUtilsMatchesRoot ==
    "library_utils" \in rs_called =>
        LET at_root == {i \in DOMAIN rs_targets :
                           library_utils_normalize_path(rs_targets[i].path)
                              = library_utils_normalize_path(rs_path)}
            typed == containing_targets_exact(rs_path, rs_targets)
                        \cap type_matching(rs_path, rs_targets)
        IN at_root # {} =>
              /\ rs_utils_match # <<>>
              /\ (typed = {} \/ typed \cap at_root # {}) =>
                     \E i \in at_root : rs_utils_match[1] = rs_targets[i].id

\* the targets of the type the keywords of the path suggest that hold the path
typed_containing(path, targets) ==
    {i \in containing_targets(path, targets) : targets[i].type = target_type(path)}

\* C35: when the path lies under a target of the type its keywords suggest,
\* a match by containment is a target of that type.
C35_TypeMatchingPreferred ==
    ( /\ "library" \in rs_called
      /\ target_type(rs_path) # "unknown"
      /\ typed_containing(rs_path, rs_targets) # {}
      /\ rs_match.match_type # "enhanced_name_based"
      /\ \E i \in containing_targets(rs_path, rs_targets) :
             rs_match.id = rs_targets[i].id ) =>
        \E i \in typed_containing(rs_path, rs_targets) :
            rs_match.id = rs_targets[i].id

\* library_utils.py:116-162: there a target of the path's type that holds
\* the path is returned whenever there is one, a target of another type
\* only when there is none
C35_LibraryUtilsPrefersType ==
    "library_utils" \in rs_called =>
        LET among == containing_targets_exact(rs_path, rs_targets)
            typed == among \cap type_matching(rs_path, rs_targets)
        IN /\ typed # {} => \E i \in typed : rs_utils_match[1] = rs_targets[i].id
           /\ (typed = {} /\ among # {}) =>
                 \E i \in among : rs_utils_match[1] = rs_targets[i].id
           /\ among = {} => rs_utils_match = <<>>

\* the score of the match by path of a target: the length of its root when
\* it holds the path, of the path when the root lies under it, else 0
path_score(path, targets, i) ==
    IF i \in containing_targets(path, targets) THEN Len(normalize_path(targets[i].path))
    ELSE IF i \in contained_targets(path, targets) THEN Len(normalize_path(path))
    ELSE 0

\* the score of the match by name when the bonus is given only for a name
\* that is the last segment of the path
exact_name_score(path, lib) ==
    LET path_lower == lower(normalize_path(path))
        parts == split_slash(path_lower)
    IN IF lib.name = <<>> \/ ~contains(path_lower, lower(lib.name)) THEN 0
       ELSE 2 * Len(lib.name) + (IF parts[Len(parts)] = lower(lib.name) THEN 5 ELSE 0)

\* a match by name is the result only with a score above that of every match
\* by path, or equal to that of a match by path of a later target, and the
\* first to reach its score among the matches by name
name_match_rule(score_of(_, _)) ==
    ("library" \in rs_called /\ rs_match.match_type = "enhanced_name_based") =>
        \E i \in DOMAIN rs_targets :
            /\ rs_match.id = rs_targets[i].id
            /\ rs_match.match_score = score_of(rs_path, rs_targets[i])
            /\ \A j \in DOMAIN rs_targets :
                   LET by_path == path_score(rs_path, rs_targets, j)
                       by_name == score_of(rs_path, rs_targets[j])
                   IN /\ by_path < rs_match.match_score
                         \/ (by_path = rs_match.match_score /\ j > i)
                      /\ by_name < rs_match.match_score
                         \/ (by_name = rs_match.match_score /\ j >= i)

\* a match by path is the result only when no match by name scores more, nor
\* as much for an earlier target
path_match_rule(score_of(_, _)) ==
    ( /\ "library" \in rs_called
      /\ rs_match # NoLibrary
      /\ rs_match.match_type # "enhanced_name_based" ) =>
        \E i \in DOMAIN rs_targets :
            /\ rs_match.id = rs_targets[i].id
            /\ rs_match.match_score = path_score(rs_path, rs_targets, i)
            /\ \A j \in DOMAIN rs_targets :
                   LET by_name == score_of(rs_path, rs_targets[j])
                   IN by_name < rs_match.match_score
                         \/ (by_name = rs_match.match_score /\ j >= i)

\* C36: a match by name scores twice the length of the name, and 5 more only
\* when the name is the last segment of the path; it is the result only when
\* no match by path exists or when it scores strictly more, and on equal
\* scores the match found first stays.
C36_NameMatchExactBonus ==
    name_match_rule(exact_name_score) /\ path_match_rule(exact_name_score)

\* C36, amended: the 5 more are given whenever the name occurs in the last
\* segment of the path.
C36_NameMatchByScore ==
    name_match_rule(name_score) /\ path_match_rule(name_score)

\* "/media/Movies/Extras2" with the targets Movies, which holds the path
\* (score 13), and Extras, whose name occurs in the last segment (12 + 5):
\* the match by name replaces the match by path
C36_Witness ==
    /\ "library" \in rs_called
    /\ rs_path = PathExtras2
    /\ rs_targets = <<TargetMovies, TargetExtras>>
    /\ rs_match.id = TargetExtras.id
    /\ rs_match.match_type = "enhanced_name_based"
    /\ rs_match.match_score = 17
    /\ path_score(rs_path, rs_targets, 1) = 13

\* ---------------------------------------------------------------------
\* Claims about the pacing delay
\* ---------------------------------------------------------------------

\* snapshot_utils.py:997, 1000: the cap the loop of the batches puts on the
\* delay it raises, scan_delay * 3
delay_cap == pool_scan_delay * 3

\* C37: however many times the delay between the batches is raised after
\* errors or slow passes, it never exceeds a fixed bound, the cap of three
\* times scan_delay.
C37_DelayCapped == wp_locals.adaptive_batch_delay <= delay_cap

\* the raise made by the loop of the batches when it replaces the pool stays
\* under the cap whenever the delay was under it (snapshot_utils.py:995-1000)
C37_LoopRaiseCapped ==
    [][(wp_pc = "tune" /\ wp_pc' # "tune" /\ wp_locals.adaptive_batch_delay <= delay_cap)
          => wp_locals'.adaptive_batch_delay <= delay_cap]_vars


\* ---------------------------------------------------------------------------
\* The statistics of a cycle (main.py:236-245)

\* main.py:241-243: what the three counters add up to when they are reported
counted_directories == success_count + failure_count + skipped_count

\* C38: when the statistics of a cycle are reported, success_count +
\* failure_count + skipped_count equals the number of configured directories:
\* every directory is counted exactly once.
\* Violated: an invalid directory ahead of the first valid one is counted by
\* the first loop (main.py:420) and again by the second (main.py:449), and a
\* recovered directory is counted at main.py:402-409 and again at :459-467.
C38_EveryDirectoryCountedOnce ==
    pc = "stats" => counted_directories = Len(directories)

----------------------------------------------------------------------------
(* Claims about the connection registry *)

\* the threads that are inside a block of "with self._lock"
inside_lock == {t \in SmbThreads :
                   smb_pc[t] \in {"checking", "storing", "updating", "disconnecting"}}

\* C39: mutations of the connection registry (connect, disconnect, health
\* update) are serialized: two concurrent connect calls for the same key never
\* both create a connection with one overwriting the other, so that no store
\* ever replaces a connection that is registered under the key.
\* Violated: connect releases the lock after its check (smb_api.py:111-119),
\* creates and connects outside it (:126-145) and takes it again only to store
\* (:148-149); two threads that both find no entry both store.
C39_ConnectNeverOverwrites ==
    smb_replaced = {}

\* C39, the part that holds: the registry, the attempts, the health and the
\* default timeout change only in a step of the thread that holds the lock,
\* and at most one thread is inside a locked block
C39_MutationsUnderLock ==
    [][/\ Cardinality(inside_lock) <= 1
       /\ (<<smb_connections, smb_attempts, smb_health, smb_timeout>>' #
             <<smb_connections, smb_attempts, smb_health, smb_timeout>>)
            => smb_lock \in SmbThreads /\ inside_lock = {smb_lock} /\ smb_lock' = "none"]_vars

\* C39: the replaced connection is still connected and registered nowhere,
\* so that no disconnect closes it
C39_ReplacedConnectionLeaks ==
    \E conn \in smb_replaced :
        /\ conn \in smb_open
        /\ \A k \in SmbKeys : smb_connections[k] # conn
        /\ smb_drops = 0

----------------------------------------------------------------------------
(* Claims about the keep-alive thread *)

\* C40: after the scan has called stop() on its keep-alive task, the thread
\* issues no further probes and has terminated, in Docker and outside it:
\* once stop() has returned the thread has returned and makes no probe.
\* Violated outside Docker: the loop of the probes is "while True"
\* (snapshot_utils.py:226) and never reads stop_event, so the join of
\* stop() ends by its timeout and the thread goes on probing.
C40_ThreadStopsAfterStop ==
    ka_caller = "stopped" => ka_pc = "returned" /\ ka_late = 0

\* C40, the part that holds: in Docker the thread has returned when stop()
\* returns, within the interval, and never makes a probe
C40_DockerThreadStops ==
    ka_docker => /\ ka_probes = 0
                 /\ ka_caller = "stopped" => ka_pc = "returned"
                 /\ ka_caller = "joining" => ka_join_left > 0

\* C40: a probe made after stop() has returned
C40_ProbeAfterStop ==
    /\ ~ka_docker
    /\ ka_caller = "stopped"
    /\ ka_late > 0
    /\ ka_pc # "returned"

====
